---- MODULE Spec2Model ----
(***************************************************************************)
(* A model of CaptainHook (LynnColeArt/captainhook): the hook and filter   *)
(* registries (hooks.py, filters.py, busy_bridge.BusyHookRegistry), the    *)
(* namespace registry and the execution context (busy_bridge.py, core.py)  *)
(* and the tag parser (parser.py).                                         *)
(*                                                                         *)
(* Python strings that the code scans are sequences of one-character       *)
(* strings; names that the code only compares are TLA+ strings.            *)
(***************************************************************************)
EXTENDS Integers, Sequences, FiniteSets, TLC

VARIABLES
    sut,             \* which registry object this run exercises
    hook,            \* the hook name the run's calls use
    token,           \* busy_bridge._HOOK_REMOVAL_TOKEN
    busy_actions,    \* BusyHookRegistry._actions[hook]   (<<>>: key absent)
    busy_filters,    \* BusyHookRegistry._filters[hook]   (<<>>: key absent)
    next_action_id,  \* BusyHookRegistry._next_action_id
    next_filter_id,  \* BusyHookRegistry._next_filter_id
    hooks_hooks,     \* Hooks._hooks[hook]
    filters_filters, \* Filters._filters[hook]
    regs,            \* number of registrations made so far
    last,            \* the last call: its arguments, its outcome, what it invoked
    ptext,           \* parse_all: the text being parsed
    pnested,         \* parse_all: its include_nested argument
    pcursor,         \* parse_all: cursor
    container_stack, \* parse_all: container_stack
    tags,            \* parse_all: tags
    pstatus,         \* parse_all: "scan" in the loop, "ok" returned, "error" raised
    tag_starts,      \* parse_all: where in the text each tag of `tags` starts
    presult,         \* what remove_tags or parse_tag gave for the text
    registry_handlers,       \* cheatcode_registry._handlers
    registry_metadata,       \* cheatcode_registry._metadata
    ctx_handlers,            \* Context._handlers
    ctx_namespace_handlers,  \* Context._namespace_handlers
    ctx_namespace_metadata,  \* Context._namespace_metadata
    nscall,                  \* the last call on them: what it raised and invoked
    ctx_apply_filters,       \* Context._apply_filters
    ctx_container_handlers,  \* Context._container_handlers
    ctx_hooks,               \* Context.hooks._hooks
    ctx_filters,             \* Context.filters._filters["result"]
    ex_phase,                \* execute_text: where the call is
    ex_tags,                 \* execute_text: tags
    ex_index,                \* execute_text: which tag the loop is at (from 1)
    ex_result,               \* execute_tag: result
    results,                 \* execute_text: results
    events,                  \* the callbacks and handlers called so far, in order
    ex_mode,                 \* which call is under way: execute_text, execute, execute_async
    bridge_hooks,            \* busy38_hooks._actions of the two cheatcode hook points
    heap,                    \* the list objects of a registry's bucket, by identity
    bucket_ref,              \* self._hooks[hook] / self._actions[hook]: which list (0: key absent)
    lock,                    \* BusyHookRegistry._lock: its owner and how often it holds it
    threads                  \* each thread's position in its call and its local variables

hookVars == <<sut, hook, token, busy_actions, busy_filters, next_action_id,
              next_filter_id, hooks_hooks, filters_filters, regs>>

parseVars == <<ptext, pnested, pcursor, container_stack, tags, pstatus, tag_starts,
              presult>>

nsVars == <<registry_handlers, registry_metadata, ctx_handlers, ctx_namespace_handlers,
            ctx_namespace_metadata, nscall>>

execVars == <<ctx_apply_filters, ctx_container_handlers, ctx_hooks, ctx_filters, ex_phase,
              ex_tags, ex_index, ex_result, results, events, ex_mode, bridge_hooks>>

concVars == <<heap, bucket_ref, lock, threads>>

vars == <<hookVars, last, parseVars, nsVars, execVars, concVars>>

----------------------------------------------------------------------------
(* Bounds *)

MaxRegs == 3

----------------------------------------------------------------------------
(* Python values that cross a callback boundary: a kind and a payload.     *)

\* filters.py / hooks.py / busy_bridge.py _freeze: dict -> MappingProxyType,
\* list -> tuple, set -> frozenset, tuple -> tuple, anything else unchanged.
FreezeKind(kind) ==
    CASE kind = "dict" -> "mappingproxy"
      [] kind = "list" -> "tuple"
      [] kind = "set" -> "frozenset"
      [] kind = "tuple" -> "tuple"
      [] OTHER -> kind

_freeze(value) == [kind |-> FreezeKind(value.kind), n |-> value.n]

\* None, where the code passes None for a string.
None == <<"None">>

Whitespace == {" "}

\* str.strip(): leading and trailing whitespace removed.
RECURSIVE lstrip(_)
lstrip(s) == IF s # <<>> /\ Head(s) \in Whitespace THEN lstrip(Tail(s)) ELSE s

RECURSIVE rstrip(_)
rstrip(s) ==
    IF s # <<>> /\ s[Len(s)] \in Whitespace THEN rstrip(SubSeq(s, 1, Len(s) - 1)) ELSE s

strip(s) == rstrip(lstrip(s))

----------------------------------------------------------------------------
(* list.sort(key=...): the stable sort. keys[i] is the key of s[i], a pair  *)
(* compared lexicographically; an element moves to the place given by the  *)
(* number of elements that sort before it.                                 *)

KeyLess(a, b) == a[1] < b[1] \/ (a[1] = b[1] /\ a[2] < b[2])

SortRank(keys, i) ==
    1 + Cardinality({j \in 1..Len(keys) :
                        KeyLess(keys[j], keys[i]) \/ (keys[j] = keys[i] /\ j < i)})

list_sort(s, keys) ==
    [r \in 1..Len(s) |-> s[CHOOSE i \in 1..Len(s) : SortRank(keys, i) = r]]

----------------------------------------------------------------------------
(* The callbacks the runs register, and what each does when it is called:  *)
(* f1 returns a value computed from the one it receives, f3 raises an      *)
(* Exception.                                                              *)

Callbacks == {"f1", "f3"}

Priorities == {10, 20}

CallbackRaises(callback) == callback = "f3"

CallbackResult(callback, value) == [kind |-> value.kind, n |-> value.n + 1]

Values == {[kind |-> "int", n |-> 1], [kind |-> "list", n |-> 1]}

----------------------------------------------------------------------------
(* busy_bridge.py: critical hooks and the removal token                    *)

_CRITICAL_HOOKS == {"busy38.pre_cheatcode_execute", "busy38.post_cheatcode_execute"}

HookNames == _CRITICAL_HOOKS \cup {"busy38.pre_tool_execute"}

\* The values of the environment variable CAPTAINHOOK_HOOK_REMOVAL_TOKEN
\* (<<>>: unset, os.getenv's default ""); "U+00E9" is the character e-acute, which is outside ASCII.
EnvTokens == {<<>>, <<" ">>, <<"k">>, <<" ", "k">>, <<"U+00E9">>}

\* The characters of the tokens that are not ASCII
NonAscii == {"U+00E9"}

\* b"k", a removal token that is no str
BytesToken == <<"b'k'">>

\* The (allow_critical, removal_token) arguments tried; (FALSE, None) are the
\* defaults.
RemovalArgs ==
    {<<FALSE, None>>, <<FALSE, <<"k">>>>, <<TRUE, None>>, <<TRUE, <<>>>>,
     <<TRUE, <<"k">>>>, <<TRUE, <<"j">>>>, <<TRUE, <<"U+00E9">>>>, <<TRUE, BytesToken>>}

IsStr(value) == value \notin {None, BytesToken}

IsAscii(string) == \A i \in 1..Len(string) : string[i] \notin NonAscii

\* secrets.compare_digest(a, b): TypeError unless both are str of ASCII
\* characters (or both bytes-like, which the secret, a str, never is)
compare_digest(a, b) ==
    IF ~(IsStr(a) /\ IsStr(b)) THEN [raised |-> "TypeError", ret |-> FALSE]
    ELSE IF ~(IsAscii(a) /\ IsAscii(b)) THEN [raised |-> "TypeError", ret |-> FALSE]
    ELSE [raised |-> "none", ret |-> a = b]

\* "ok" (returns), or the exception raised: "PermissionError", or "TypeError"
\* from compare_digest; `secret` is _HOOK_REMOVAL_TOKEN.
_ensure_removal_allowed(hook_name, allow_critical, removal_token, secret) ==
    IF hook_name \notin _CRITICAL_HOOKS THEN "ok"
    ELSE IF ~allow_critical THEN "PermissionError"
    ELSE IF secret = <<>> THEN "PermissionError"
    ELSE IF removal_token = None \/ removal_token = <<>> THEN "PermissionError"
    ELSE IF compare_digest(removal_token, secret).raised # "none"
         THEN compare_digest(removal_token, secret).raised
    ELSE IF ~compare_digest(removal_token, secret).ret THEN "PermissionError"
    ELSE "ok"

----------------------------------------------------------------------------
(* busy_bridge.py: BusyHookRegistry                                        *)

_next_entry_id(counter) == <<"hook-", counter>>

BusyKeys(bucket) == [i \in 1..Len(bucket) |-> <<bucket[i].priority, bucket[i].order>>]

\* The bucket after _register: the entry appended, the bucket sorted.
RegisterNewestFirst(bucket, callback, priority, counter) ==
    LET entry == [callback |-> callback, priority |-> priority,
                  entry_id |-> _next_entry_id(counter), order |-> Len(bucket)]
        appended == <<entry>> \o bucket
    IN  list_sort(appended, [i \in 1..Len(appended) |-> <<appended[i].priority, 0>>])

_register(bucket, callback, priority, counter) ==
    LET entry == [callback |-> callback, priority |-> priority,
                  entry_id |-> _next_entry_id(counter), order |-> Len(bucket)]
        appended == Append(bucket, entry)
    IN  list_sort(appended, BusyKeys(appended))

\* A removal key is an entry id or a callable (removed by identity).
RemovalKeys(counter) ==
    {[by |-> "id", v |-> _next_entry_id(c)] : c \in 0..counter}
        \cup {[by |-> "callback", v |-> cb] : cb \in Callbacks}

Keeps(entry, key) ==
    IF key.by = "callback" THEN entry.callback # key.v ELSE entry.entry_id # key.v

\* _remove_one after the permission check: the bucket left and the value returned.
_remove_one(bucket, key) ==
    IF bucket = <<>> THEN [bucket |-> bucket, ret |-> FALSE]
    ELSE LET kept == SelectSeq(bucket, LAMBDA e : Keeps(e, key))
         IN  [bucket |-> kept, ret |-> Len(kept) # Len(bucket)]

\* The loop of do_action: every entry of the snapshot is called; an Exception
\* a callback raises is caught and the loop continues.
RECURSIVE ActionLoopStopsAtRaise(_, _)
ActionLoopStopsAtRaise(callbacks, log) ==
    IF callbacks = <<>> THEN [raised |-> "none", log |-> log]
    ELSE IF CallbackRaises(Head(callbacks).callback)
         THEN [raised |-> "Exception", log |-> Append(log, Head(callbacks))]
         ELSE ActionLoopStopsAtRaise(Tail(callbacks), Append(log, Head(callbacks)))

RECURSIVE ActionLoop(_, _)
ActionLoop(callbacks, log) ==
    IF callbacks = <<>> THEN [raised |-> "none", log |-> log]
    ELSE ActionLoop(Tail(callbacks), Append(log, Head(callbacks)))

\* The loop of apply / apply_filters: current is replaced by what a callback
\* returns and kept when the callback raises.
RECURSIVE FilterLoopStopsAtRaise(_, _, _)
FilterLoopStopsAtRaise(callbacks, current, log) ==
    IF callbacks = <<>> THEN [raised |-> "none", ret |-> current, log |-> log]
    ELSE LET entry == Head(callbacks)
         IN  IF CallbackRaises(entry.callback)
             THEN [raised |-> "none", ret |-> current, log |-> Append(log, entry)]
             ELSE FilterLoopStopsAtRaise(Tail(callbacks),
                                          CallbackResult(entry.callback, current),
                                          Append(log, entry))

RECURSIVE FilterLoop(_, _, _)
FilterLoop(callbacks, current, log) ==
    IF callbacks = <<>> THEN [raised |-> "none", ret |-> current, log |-> log]
    ELSE LET entry == Head(callbacks)
         IN  IF CallbackRaises(entry.callback)
             THEN FilterLoop(Tail(callbacks), current, Append(log, entry))
             ELSE FilterLoop(Tail(callbacks),
                             CallbackResult(entry.callback, current),
                             Append(log, entry))

\* BusyHookRegistry.do_action on the bucket's snapshot.
Busy_do_action(bucket) ==
    IF bucket = <<>> THEN [raised |-> "none", log |-> <<>>] ELSE ActionLoop(bucket, <<>>)

\* BusyHookRegistry.apply on the bucket's snapshot.
Busy_apply(bucket, value) ==
    IF bucket = <<>> THEN [raised |-> "none", ret |-> value, log |-> <<>>]
    ELSE FilterLoop(bucket, value, <<>>)

----------------------------------------------------------------------------
(* hooks.py: Hooks, filters.py: Filters.  `reg` stands for the identity of  *)
(* the registration object: the number of registrations made before it.    *)

PriorityKeys(bucket) == [i \in 1..Len(bucket) |-> <<bucket[i].priority, 0>>]

Hooks_add_action(bucket, hook_name, callback, priority, reg) ==
    LET entry == [callback |-> callback, priority |-> priority,
                  action |-> hook_name, reg |-> reg]
        appended == Append(bucket, entry)
    IN  list_sort(appended, PriorityKeys(appended))

Hooks_do_action(bucket) ==
    IF bucket = <<>> THEN [raised |-> "none", log |-> <<>>] ELSE ActionLoop(bucket, <<>>)

Hooks_remove_action(bucket, callback) ==
    IF bucket = <<>> THEN bucket ELSE SelectSeq(bucket, LAMBDA h : h.callback # callback)

Filters_add_filter(bucket, callback, priority, reg) ==
    LET entry == [callback |-> callback, priority |-> priority, reg |-> reg]
        appended == Append(bucket, entry)
    IN  list_sort(appended, PriorityKeys(appended))

\* Filters.apply_filters: with callbacks registered the chain starts from the
\* frozen value.
Filters_apply_filters(bucket, value) ==
    IF bucket = <<>> THEN [raised |-> "none", ret |-> value, log |-> <<>>]
    ELSE FilterLoop(bucket, _freeze(value), <<>>)

Filters_remove_filter(bucket, callback) ==
    IF bucket = <<>> THEN bucket ELSE SelectSeq(bucket, LAMBDA f : f.callback # callback)

----------------------------------------------------------------------------
(* The hook registries as a state machine.  A run exercises one bucket of  *)
(* one registry object (sut) under one hook name; buckets of other names   *)
(* and other objects are separate dictionary entries the calls never read. *)

SUTs == {"busy_actions", "busy_filters", "hooks", "filters"}

NoKey == [by |-> "none", v |-> ""]

\* What a run records of a call: the call, its arguments (the key of a removal
\* only once the permission check has passed), whether it raised, what it
\* returned and the entries whose callbacks it invoked, in order.
NoCall == [op |-> "none", allow_critical |-> FALSE, removal_token |-> None,
           key |-> NoKey, value |-> [kind |-> "none", n |-> 0],
           raised |-> "none", ret |-> FALSE, log |-> <<>>]

\* The last call on the namespace handlers, none made yet.
NoNsCall == [op |-> "none", namespace |-> <<>>, action |-> <<>>, tag_string |-> <<>>,
             kwargs |-> <<>>, raised |-> "none", invoked |-> <<>>, ret |-> [t |-> "None"]]

\* No namespace and no handler is registered.
NamespacesIdle ==
    /\ registry_handlers = <<>>
    /\ registry_metadata = <<>>
    /\ ctx_handlers = <<>>
    /\ ctx_namespace_handlers = <<>>
    /\ ctx_namespace_metadata = <<>>
    /\ nscall = NoNsCall

\* remove_tags and parse_tag not called.
NoResult == [op |-> "none", ok |-> TRUE, value |-> <<>>]

\* No parse is under way.
ParserIdle ==
    /\ ptext = <<>>
    /\ pnested = FALSE
    /\ pcursor = 0
    /\ container_stack = <<>>
    /\ tags = <<>>
    /\ pstatus = "idle"
    /\ tag_starts = <<>>
    /\ presult = NoResult

\* A fresh Context on which nothing has been executed.
NoHooks == [before_execute |-> <<>>, after_execute |-> <<>>]

NoValue == [kind |-> "none", n |-> 0]

\* No callback is registered on busy38.pre_cheatcode_execute or on
\* busy38.post_cheatcode_execute.
NoBridgeHooks == [pre_cheatcode_execute |-> <<>>, post_cheatcode_execute |-> <<>>]

\* threading.RLock(), not held
Unlocked == [owner |-> "none", depth |-> 0]

\* do_action is not under way.
NoEmission == [pc |-> "idle", registered |-> <<>>, callbacks |-> <<>>, index |-> 0, log |-> <<>>]

\* add_action / remove_action is not under way.
NoOp == [pc |-> "idle", ref |-> 0, kept |-> <<>>, index |-> 0, saved |-> <<>>]

NoThreads == [emitter |-> NoEmission, adder |-> NoOp, remover |-> NoOp]

\* No thread is in a call.
ThreadsIdle ==
    /\ heap = <<>>
    /\ bucket_ref = 0
    /\ lock = Unlocked
    /\ threads = NoThreads

ExecIdle ==
    /\ ThreadsIdle
    /\ ctx_apply_filters = FALSE
    /\ ctx_container_handlers = <<>>
    /\ ctx_hooks = NoHooks
    /\ ctx_filters = <<>>
    /\ ex_phase = "idle"
    /\ ex_tags = <<>>
    /\ ex_index = 0
    /\ ex_result = NoValue
    /\ results = <<>>
    /\ events = <<>>
    /\ ex_mode = "none"
    /\ bridge_hooks = NoBridgeHooks

InitHooks ==
    /\ sut \in SUTs
    /\ hook \in HookNames
    /\ token \in {strip(env) : env \in EnvTokens}
    /\ busy_actions = <<>>
    /\ busy_filters = <<>>
    /\ next_action_id = 0
    /\ next_filter_id = 0
    /\ hooks_hooks = <<>>
    /\ filters_filters = <<>>
    /\ regs = 0
    /\ last = NoCall
    /\ ParserIdle
    /\ NamespacesIdle
    /\ ExecIdle

\* The run works on the action buckets of a BusyHookRegistry: on them alone,
\* or on both kinds of bucket of the one registry object (sut "busy").
OnActions == sut \in {"busy_actions", "busy"}

\* The run works on the filter buckets of a BusyHookRegistry.
OnFilters == sut \in {"busy_filters", "busy"}

\* BusyHookRegistry.add_action(hook, callback, priority)
BusyAddAction(callback, priority) ==
    /\ OnActions
    /\ regs < MaxRegs
    /\ busy_actions' = _register(busy_actions, callback, priority, next_action_id)
    /\ next_action_id' = next_action_id + 1
    /\ regs' = regs + 1
    /\ last' = [NoCall EXCEPT !.op = "add_action", !.ret = _next_entry_id(next_action_id)]
    /\ UNCHANGED <<sut, hook, token, busy_filters, next_filter_id, hooks_hooks,
                   filters_filters,
                   parseVars, nsVars, execVars, concVars>>

\* BusyHookRegistry.add_filter(hook, callback, priority)
BusyAddFilter(callback, priority) ==
    /\ OnFilters
    /\ regs < MaxRegs
    /\ busy_filters' = _register(busy_filters, callback, priority, next_filter_id)
    /\ next_filter_id' = next_filter_id + 1
    /\ regs' = regs + 1
    /\ last' = [NoCall EXCEPT !.op = "add_filter", !.ret = _next_entry_id(next_filter_id)]
    /\ UNCHANGED <<sut, hook, token, busy_actions, next_action_id, hooks_hooks,
                   filters_filters,
                   parseVars, nsVars, execVars, concVars>>

\* BusyHookRegistry.remove_action(hook, key, allow_critical, removal_token)
BusyRemoveAction(key, allow_critical, removal_token) ==
    LET call == [NoCall EXCEPT !.op = "remove_action",
                               !.allow_critical = allow_critical,
                               !.removal_token = removal_token]
        allowed == _ensure_removal_allowed(hook, allow_critical, removal_token, token)
        done == _remove_one(busy_actions, key)
    IN  /\ OnActions
        /\ IF allowed # "ok"
           THEN /\ last' = [call EXCEPT !.raised = allowed]
                /\ UNCHANGED busy_actions
           ELSE /\ last' = [call EXCEPT !.key = key, !.ret = done.ret]
                /\ busy_actions' = done.bucket
        /\ UNCHANGED <<sut, hook, token, busy_filters, next_action_id, next_filter_id,
                       hooks_hooks, filters_filters, regs,
                   parseVars, nsVars, execVars, concVars>>

\* BusyHookRegistry.remove_filter(hook, key, allow_critical, removal_token)
BusyRemoveFilter(key, allow_critical, removal_token) ==
    LET call == [NoCall EXCEPT !.op = "remove_filter",
                               !.allow_critical = allow_critical,
                               !.removal_token = removal_token]
        allowed == _ensure_removal_allowed(hook, allow_critical, removal_token, token)
        done == _remove_one(busy_filters, key)
    IN  /\ OnFilters
        /\ IF allowed # "ok"
           THEN /\ last' = [call EXCEPT !.raised = allowed]
                /\ UNCHANGED busy_filters
           ELSE /\ last' = [call EXCEPT !.key = key, !.ret = done.ret]
                /\ busy_filters' = done.bucket
        /\ UNCHANGED <<sut, hook, token, busy_actions, next_action_id, next_filter_id,
                       hooks_hooks, filters_filters, regs,
                   parseVars, nsVars, execVars, concVars>>

\* BusyHookRegistry.remove_all_actions(hook, allow_critical, removal_token)
BusyRemoveAllActions(allow_critical, removal_token) ==
    LET call == [NoCall EXCEPT !.op = "remove_all_actions",
                               !.allow_critical = allow_critical,
                               !.removal_token = removal_token]
        allowed == _ensure_removal_allowed(hook, allow_critical, removal_token, token)
    IN  /\ OnActions
        /\ IF allowed # "ok"
           THEN /\ last' = [call EXCEPT !.raised = allowed]
                /\ UNCHANGED busy_actions
           ELSE /\ last' = [call EXCEPT !.ret = (busy_actions # <<>>)]
                /\ busy_actions' = <<>>
        /\ UNCHANGED <<sut, hook, token, busy_filters, next_action_id, next_filter_id,
                       hooks_hooks, filters_filters, regs,
                   parseVars, nsVars, execVars, concVars>>

\* BusyHookRegistry.remove_all_filters(hook, allow_critical, removal_token)
BusyRemoveAllFilters(allow_critical, removal_token) ==
    LET call == [NoCall EXCEPT !.op = "remove_all_filters",
                               !.allow_critical = allow_critical,
                               !.removal_token = removal_token]
        allowed == _ensure_removal_allowed(hook, allow_critical, removal_token, token)
    IN  /\ OnFilters
        /\ IF allowed # "ok"
           THEN /\ last' = [call EXCEPT !.raised = allowed]
                /\ UNCHANGED busy_filters
           ELSE /\ last' = [call EXCEPT !.ret = (busy_filters # <<>>)]
                /\ busy_filters' = <<>>
        /\ UNCHANGED <<sut, hook, token, busy_actions, next_action_id, next_filter_id,
                       hooks_hooks, filters_filters, regs,
                   parseVars, nsVars, execVars, concVars>>

\* BusyHookRegistry.do_action(hook)
BusyDoAction ==
    LET run == Busy_do_action(busy_actions)
    IN  /\ OnActions
        /\ last' = [NoCall EXCEPT !.op = "do_action", !.raised = run.raised,
                                  !.log = run.log]
        /\ UNCHANGED <<hookVars, parseVars, nsVars, execVars, concVars>>

\* BusyHookRegistry.apply(hook, value)
BusyApply(value) ==
    LET run == Busy_apply(busy_filters, value)
    IN  /\ OnFilters
        /\ last' = [NoCall EXCEPT !.op = "apply", !.value = value,
                                  !.raised = run.raised, !.ret = run.ret, !.log = run.log]
        /\ UNCHANGED <<hookVars, parseVars, nsVars, execVars, concVars>>

\* Hooks.add_action(hook, callback, priority)
HooksAddAction(callback, priority) ==
    /\ sut = "hooks"
    /\ regs < MaxRegs
    /\ hooks_hooks' = Hooks_add_action(hooks_hooks, hook, callback, priority, regs)
    /\ regs' = regs + 1
    /\ last' = [NoCall EXCEPT !.op = "add_action"]
    /\ UNCHANGED <<sut, hook, token, busy_actions, busy_filters, next_action_id,
                   next_filter_id, filters_filters,
                   parseVars, nsVars, execVars, concVars>>

\* Hooks.do_action(hook)
HooksDoAction ==
    LET run == Hooks_do_action(hooks_hooks)
    IN  /\ sut = "hooks"
        /\ last' = [NoCall EXCEPT !.op = "do_action", !.raised = run.raised,
                                  !.log = run.log]
        /\ UNCHANGED <<hookVars, parseVars, nsVars, execVars, concVars>>

\* Hooks.remove_action(hook, callback)
HooksRemoveAction(callback) ==
    /\ sut = "hooks"
    /\ hooks_hooks' = Hooks_remove_action(hooks_hooks, callback)
    /\ last' = [NoCall EXCEPT !.op = "remove_action",
                              !.key = [by |-> "callback", v |-> callback]]
    /\ UNCHANGED <<sut, hook, token, busy_actions, busy_filters, next_action_id,
                   next_filter_id, filters_filters, regs,
                   parseVars, nsVars, execVars, concVars>>

\* Filters.add_filter(hook, callback, priority)
FiltersAddFilter(callback, priority) ==
    /\ sut = "filters"
    /\ regs < MaxRegs
    /\ filters_filters' = Filters_add_filter(filters_filters, callback, priority, regs)
    /\ regs' = regs + 1
    /\ last' = [NoCall EXCEPT !.op = "add_filter"]
    /\ UNCHANGED <<sut, hook, token, busy_actions, busy_filters, next_action_id,
                   next_filter_id, hooks_hooks,
                   parseVars, nsVars, execVars, concVars>>

\* Filters.apply_filters(hook, value)
FiltersApplyFilters(value) ==
    LET run == Filters_apply_filters(filters_filters, value)
    IN  /\ sut = "filters"
        /\ last' = [NoCall EXCEPT !.op = "apply", !.value = value,
                                  !.raised = run.raised, !.ret = run.ret, !.log = run.log]
        /\ UNCHANGED <<hookVars, parseVars, nsVars, execVars, concVars>>

\* Filters.remove_filter(hook, callback)
FiltersRemoveFilter(callback) ==
    /\ sut = "filters"
    /\ filters_filters' = Filters_remove_filter(filters_filters, callback)
    /\ last' = [NoCall EXCEPT !.op = "remove_filter",
                              !.key = [by |-> "callback", v |-> callback]]
    /\ UNCHANGED <<sut, hook, token, busy_actions, busy_filters, next_action_id,
                   next_filter_id, hooks_hooks, regs,
                   parseVars, nsVars, execVars, concVars>>

NextHooks ==
    \/ \E cb \in Callbacks, p \in Priorities : BusyAddAction(cb, p)
    \/ \E cb \in Callbacks, p \in Priorities : BusyAddFilter(cb, p)
    \/ \E key \in RemovalKeys(next_action_id), a \in RemovalArgs :
          BusyRemoveAction(key, a[1], a[2])
    \/ \E key \in RemovalKeys(next_filter_id), a \in RemovalArgs :
          BusyRemoveFilter(key, a[1], a[2])
    \/ \E a \in RemovalArgs : BusyRemoveAllActions(a[1], a[2])
    \/ \E a \in RemovalArgs : BusyRemoveAllFilters(a[1], a[2])
    \/ BusyDoAction
    \/ \E v \in Values : BusyApply(v)
    \/ \E cb \in Callbacks, p \in Priorities : HooksAddAction(cb, p)
    \/ HooksDoAction
    \/ \E cb \in Callbacks : HooksRemoveAction(cb)
    \/ \E cb \in Callbacks, p \in Priorities : FiltersAddFilter(cb, p)
    \/ \E v \in Values : FiltersApplyFilters(v)
    \/ \E cb \in Callbacks : FiltersRemoveFilter(cb)

SpecHooks == InitHooks /\ [][NextHooks]_vars

\* One BusyHookRegistry on which both actions and filters are registered and
\* removed under one hook name: __init__ (lines 88-93) creates both bucket
\* dictionaries and both counters.
InitRegistry ==
    /\ sut = "busy"
    /\ hook \in HookNames
    /\ token \in {strip(env) : env \in EnvTokens}
    /\ busy_actions = <<>>
    /\ busy_filters = <<>>
    /\ next_action_id = 0
    /\ next_filter_id = 0
    /\ hooks_hooks = <<>>
    /\ filters_filters = <<>>
    /\ regs = 0
    /\ last = NoCall
    /\ ParserIdle
    /\ NamespacesIdle
    /\ ExecIdle

NextRegistry ==
    \/ \E cb \in Callbacks, p \in Priorities : BusyAddAction(cb, p)
    \/ \E cb \in Callbacks, p \in Priorities : BusyAddFilter(cb, p)
    \/ \E key \in RemovalKeys(next_action_id), a \in RemovalArgs :
          BusyRemoveAction(key, a[1], a[2])
    \/ \E key \in RemovalKeys(next_filter_id), a \in RemovalArgs :
          BusyRemoveFilter(key, a[1], a[2])

SpecRegistry == InitRegistry /\ [][NextRegistry]_vars

----------------------------------------------------------------------------
(* BusyHookRegistry.do_action step by step: the snapshot under the lock,    *)
(* then one step for each callback called.  A callback is user code: it may *)
(* call add_action or remove_action on the registry that is calling it.     *)

\* RLock.acquire returns at once for the owner and when nobody holds the lock.
CanAcquire(l, thread) == l.owner \in {"none", thread}

Acquire(l, thread) == [owner |-> thread, depth |-> l.depth + 1]

Release(l) == IF l.depth = 1 THEN Unlocked ELSE [l EXCEPT !.depth = @ - 1]

\* What a callback does besides returning or raising: nothing, or a call of
\* add_action or of remove_action (with the default allow_critical and
\* removal_token) on the registry and hook that called it.
Reentries(counter) ==
    {[op |-> "none"]}
      \cup {[op |-> "add_action", callback |-> cb, priority |-> p] :
                cb \in Callbacks, p \in Priorities}
      \cup {[op |-> "remove_action", key |-> key] : key \in RemovalKeys(counter)}

\* `for entry in self._actions[hook_name]`: the loop over the bucket itself.
IteratesBucket(callbacks, bucket) == bucket

\* `for entry in callbacks`: the loop goes over the snapshot.
Iterated(callbacks, bucket) == callbacks

InitEmit ==
    /\ sut = "busy_actions"
    /\ hook \in HookNames
    /\ token = <<>>
    /\ busy_actions = <<>>
    /\ busy_filters = <<>>
    /\ next_action_id = 0
    /\ next_filter_id = 0
    /\ hooks_hooks = <<>>
    /\ filters_filters = <<>>
    /\ regs = 0
    /\ last = NoCall
    /\ ParserIdle
    /\ NamespacesIdle
    /\ ExecIdle

\* add_action(hook, callback, priority) before the emission
AddBeforeEmission(callback, priority) ==
    /\ threads.emitter.pc = "idle"
    /\ BusyAddAction(callback, priority)

\* do_action: `with self._lock: callbacks = list(self._actions.get(hook, []))`
\* and `if not callbacks: return`
DoActionSnapshot ==
    /\ threads.emitter.pc = "idle"
    /\ CanAcquire(lock, "emitter")
    /\ lock' = Release(Acquire(lock, "emitter"))
    /\ threads' = [threads EXCEPT !.emitter =
                      [pc |-> IF busy_actions = <<>> THEN "done" ELSE "calling",
                       registered |-> busy_actions, callbacks |-> busy_actions,
                       index |-> 1, log |-> <<>>]]
    /\ UNCHANGED <<hookVars, last, parseVars, nsVars, execVars, heap, bucket_ref>>

\* The registry after the add_action or remove_action a callback makes: a
\* PermissionError of remove_action leaves the registry as it is.
Reentered(reentry) ==
    CASE reentry.op = "add_action" ->
            [bucket |-> _register(busy_actions, reentry.callback, reentry.priority,
                                  next_action_id),
             counter |-> next_action_id + 1, regs |-> regs + 1]
      [] reentry.op = "remove_action"
            /\ _ensure_removal_allowed(hook, FALSE, None, token) = "ok" ->
            [bucket |-> _remove_one(busy_actions, reentry.key).bucket,
             counter |-> next_action_id, regs |-> regs]
      [] OTHER -> [bucket |-> busy_actions, counter |-> next_action_id, regs |-> regs]

\* The callback's own call reaches a `with self._lock`: _register does, and
\* _remove_one does after _ensure_removal_allowed, whose PermissionError ends
\* the call before the lock is asked for.
TakesLock(reentry) ==
    \/ reentry.op = "add_action"
    \/ /\ reentry.op = "remove_action"
       /\ _ensure_removal_allowed(hook, FALSE, None, token) = "ok"

\* do_action: one turn of the loop, `entry.callback(*safe_args, **safe_kwargs)`
\* inside try/except.  Where the callback's own call of the registry needs
\* the lock and cannot get it the thread waits.
CallCallback(reentry) ==
    LET me == threads.emitter
        list == Iterated(me.callbacks, busy_actions)
        after == Reentered(reentry)
    IN  /\ me.pc = "calling"
        /\ reentry.op = "add_action" => regs < MaxRegs
        /\ IF TakesLock(reentry) /\ ~CanAcquire(lock, "emitter")
           THEN /\ threads' = [threads EXCEPT !.emitter.pc = "blocked"]
                /\ UNCHANGED <<busy_actions, next_action_id, regs, lock>>
           ELSE /\ busy_actions' = after.bucket
                /\ next_action_id' = after.counter
                /\ regs' = after.regs
                /\ lock' = IF TakesLock(reentry) THEN Release(Acquire(lock, "emitter"))
                           ELSE lock
                /\ threads' = [threads EXCEPT !.emitter =
                      [me EXCEPT !.log = Append(@, list[me.index]),
                                 !.index = @ + 1,
                                 !.pc = IF me.index < Len(Iterated(me.callbacks, after.bucket))
                                        THEN "calling" ELSE "done"]]
        /\ UNCHANGED <<sut, hook, token, busy_filters, next_filter_id, hooks_hooks,
                       filters_filters, last, parseVars, nsVars, execVars, heap, bucket_ref>>

NextEmit ==
    \/ \E cb \in Callbacks, p \in Priorities : AddBeforeEmission(cb, p)
    \/ DoActionSnapshot
    \/ \E reentry \in Reentries(next_action_id) : CallCallback(reentry)

SpecEmit == InitEmit /\ [][NextEmit]_vars

----------------------------------------------------------------------------
(* Three threads on one registry and one hook name: one calls add (of       *)
(* callback "f3"), one remove (of callback "f1"), one do_action / apply.    *)
(* A step is one evaluation that reads or writes the registry; between two  *)
(* steps of a thread the others may run.  The lists of the registry are     *)
(* objects: `heap` holds their contents, a reference is an index into it.   *)

\* The registries whose methods take self._lock: Hooks and Filters have none.
Locked(registry) == registry \in {"busy_actions", "busy_filters"}

ThreadSUTs == {"hooks", "filters", "busy_actions"}

\* The entry a registration appends to the list `bucket`.
NewEntry(registry, bucket, callback, priority, counter) ==
    IF Locked(registry)
    THEN [callback |-> callback, priority |-> priority,
          entry_id |-> _next_entry_id(counter), order |-> Len(bucket)]
    ELSE [callback |-> callback, priority |-> priority, reg |-> counter]

\* bucket.sort(key=...): by (priority, order) in BusyHookRegistry, by priority
\* in Hooks and Filters.
Sorted(registry, bucket) ==
    IF Locked(registry) THEN list_sort(bucket, BusyKeys(bucket))
    ELSE list_sort(bucket, PriorityKeys(bucket))

\* [h for h in hooks if h.callback is not callback]
Kept(bucket, callback) == SelectSeq(bucket, LAMBDA h : h.callback # callback)

RECURSIVE Registered(_, _, _, _)
\* The bucket after registering f1 with each of the priorities, in turn.
Registered(registry, bucket, priorities, counter) ==
    IF priorities = <<>> THEN bucket
    ELSE Registered(registry,
                    Sorted(registry, Append(bucket, NewEntry(registry, bucket, "f1",
                                                            Head(priorities), counter))),
                    Tail(priorities), counter + 1)

\* The priorities of the registrations of f1 made before the threads start.
EarlierRegistrations == {<<>>, <<10>>, <<20>>, <<10, 20>>}

\* The list the registry's dict holds for the hook name ([] where it has none).
Current == IF bucket_ref = 0 THEN <<>> ELSE heap[bucket_ref]

InitThreads ==
    /\ sut \in ThreadSUTs
    /\ hook = "busy38.pre_tool_execute"
    /\ token = <<>>
    /\ busy_actions = <<>>
    /\ busy_filters = <<>>
    /\ next_filter_id = 0
    /\ hooks_hooks = <<>>
    /\ filters_filters = <<>>
    /\ last = NoCall
    /\ ParserIdle
    /\ NamespacesIdle
    /\ ctx_apply_filters = FALSE
    /\ ctx_container_handlers = <<>>
    /\ ctx_hooks = NoHooks
    /\ ctx_filters = <<>>
    /\ ex_phase = "idle"
    /\ ex_tags = <<>>
    /\ ex_index = 0
    /\ ex_result = NoValue
    /\ results = <<>>
    /\ events = <<>>
    /\ ex_mode = "none"
    /\ bridge_hooks = NoBridgeHooks
    /\ lock = Unlocked
    /\ threads = NoThreads
    /\ \E earlier \in EarlierRegistrations :
          /\ regs = Len(earlier)
          /\ next_action_id = Len(earlier)
          /\ IF earlier = <<>>
             THEN heap = <<>> /\ bucket_ref = 0
             ELSE heap = <<Registered(sut, <<>>, earlier, 0)>> /\ bucket_ref = 1

\* The lock as the thread's step finds and leaves it: `with self._lock` is
\* entered at the first step of a method of BusyHookRegistry and left at its
\* last; Hooks and Filters never touch a lock.
Enters(thread) == Locked(sut) => CanAcquire(lock, thread)

Entered(thread) == IF Locked(sut) THEN Acquire(lock, thread) ELSE lock

Left == IF Locked(sut) THEN Release(lock) ELSE lock

\* add: `self._hooks.setdefault(hook_name, [])` / `registry.setdefault(...)`
AddSetdefault(priority) ==
    /\ threads.adder.pc = "idle"
    /\ Enters("adder")
    /\ lock' = Entered("adder")
    /\ IF bucket_ref = 0
       THEN /\ heap' = Append(heap, <<>>)
            /\ bucket_ref' = Len(heap) + 1
       ELSE UNCHANGED <<heap, bucket_ref>>
    /\ threads' = [threads EXCEPT !.adder =
                      [pc |-> "append", ref |-> bucket_ref', kept |-> <<>>, index |-> 0,
                       saved |-> <<>>, priority |-> priority]]
    /\ UNCHANGED <<hookVars, last, parseVars, nsVars, execVars>>

\* add: `.append(entry)` on the list setdefault returned
AddAppend ==
    LET me == threads.adder
    IN  /\ me.pc = "append"
        /\ heap' = [heap EXCEPT ![me.ref] =
                       Append(@, NewEntry(sut, @, "f3", me.priority, next_action_id))]
        /\ next_action_id' = next_action_id + 1
        /\ regs' = regs + 1
        /\ threads' = [threads EXCEPT !.adder.pc = "sort"]
        /\ UNCHANGED <<sut, hook, token, busy_actions, busy_filters, next_filter_id,
                       hooks_hooks, filters_filters, last, parseVars, nsVars, execVars,
                       bucket_ref, lock>>

\* add: `self._hooks[hook_name].sort(key=...)` in Hooks and Filters,
\* `bucket.sort(key=...)` in BusyHookRegistry, up to its calls of the key
\* function.  list.sort takes the items out of the list for the time it runs:
\* the list is empty to whoever reads it until the sort puts them back.
AddSortBegin ==
    LET me == threads.adder
        target == IF Locked(sut) THEN me.ref ELSE bucket_ref
    IN  /\ me.pc = "sort"
        /\ heap' = [heap EXCEPT ![target] = <<>>]
        /\ threads' = [threads EXCEPT !.adder.pc = "sorting",
                                      !.adder.ref = target,
                                      !.adder.saved = heap[target]]
        /\ UNCHANGED <<hookVars, last, parseVars, nsVars, execVars, bucket_ref, lock>>

\* add: the sort puts the items back, in order; the call returns
AddSortEnd ==
    LET me == threads.adder
    IN  /\ me.pc = "sorting"
        /\ heap' = [heap EXCEPT ![me.ref] = Sorted(sut, me.saved)]
        /\ lock' = Left
        /\ threads' = [threads EXCEPT !.adder.pc = "done"]
        /\ UNCHANGED <<hookVars, last, parseVars, nsVars, execVars, bucket_ref>>

\* remove: `hooks = self._hooks.get(hook_name)`, `if not hooks: return`
RemoveGet ==
    /\ threads.remover.pc = "idle"
    /\ Enters("remover")
    /\ IF Current = <<>>
       THEN /\ lock' = lock
            /\ threads' = [threads EXCEPT !.remover.pc = "done"]
       ELSE /\ lock' = Entered("remover")
            /\ threads' = [threads EXCEPT !.remover = [pc |-> "filter", ref |-> bucket_ref,
                                                       kept |-> <<>>, index |-> 0,
                                                       saved |-> <<>>]]
    /\ UNCHANGED <<hookVars, last, parseVars, nsVars, execVars, heap, bucket_ref>>

\* remove: one turn of the list comprehension over the list read, `for h in
\* hooks` taking the item at the iterator's index of the list as it is now,
\* or the end of the comprehension where the index is past its end
RemoveFilter ==
    LET me == threads.remover
        hooks == heap[me.ref]
    IN  /\ me.pc = "filter"
        /\ IF me.index < Len(hooks)
           THEN threads' = [threads EXCEPT
                               !.remover.kept = @ \o Kept(<<hooks[me.index + 1]>>, "f1"),
                               !.remover.index = @ + 1]
           ELSE threads' = [threads EXCEPT !.remover.pc = "assign"]
        /\ UNCHANGED <<hookVars, last, parseVars, nsVars, execVars, heap, bucket_ref,
                       lock>>

\* remove: `self._hooks[hook_name] = [...]`; BusyHookRegistry pops the key of
\* an empty list; the call returns
RemoveAssign ==
    LET me == threads.remover
    IN  /\ me.pc = "assign"
        /\ IF Locked(sut) /\ me.kept = <<>>
           THEN /\ bucket_ref' = 0
                /\ UNCHANGED heap
           ELSE /\ heap' = Append(heap, me.kept)
                /\ bucket_ref' = Len(heap) + 1
        /\ lock' = Left
        /\ threads' = [threads EXCEPT !.remover.pc = "done"]
        /\ UNCHANGED <<hookVars, last, parseVars, nsVars, execVars>>

\* do_action / apply / apply_filters: `callbacks = list(self._hooks.get(hook_name, []))`
TakeSnapshot ==
    /\ threads.emitter.pc = "idle"
    /\ Enters("emitter")
    /\ threads' = [threads EXCEPT !.emitter =
                      [NoEmission EXCEPT !.pc = "done", !.registered = Current,
                                         !.callbacks = Current]]
    /\ UNCHANGED <<hookVars, last, parseVars, nsVars, execVars, heap, bucket_ref, lock>>

NextThreads ==
    \/ \E priority \in Priorities : AddSetdefault(priority)
    \/ AddAppend
    \/ AddSortBegin
    \/ AddSortEnd
    \/ RemoveGet
    \/ RemoveFilter
    \/ RemoveAssign
    \/ TakeSnapshot

SpecThreads == InitThreads /\ [][NextThreads]_vars

----------------------------------------------------------------------------
(* One action bucket of a BusyHookRegistry that already holds registrations *)
(* when the run starts: add_action, remove_action and do_action on it, for  *)
(* a hook name that is not critical.                                        *)

\* The priorities of the add_action calls (of f1) made before the run starts.
EarlierActions == {<<>>, <<10>>, <<10, 10>>, <<10, 20>>}

InitOrder ==
    /\ sut = "busy_actions"
    /\ hook = "busy38.pre_tool_execute"
    /\ token = <<>>
    /\ \E earlier \in EarlierActions :
          /\ busy_actions = Registered("busy_actions", <<>>, earlier, 0)
          /\ next_action_id = Len(earlier)
    /\ busy_filters = <<>>
    /\ next_filter_id = 0
    /\ hooks_hooks = <<>>
    /\ filters_filters = <<>>
    /\ regs = 0
    /\ last = NoCall
    /\ ParserIdle
    /\ NamespacesIdle
    /\ ExecIdle

NextOrder ==
    \/ \E cb \in Callbacks, p \in Priorities : BusyAddAction(cb, p)
    \/ \E key \in RemovalKeys(next_action_id) : BusyRemoveAction(key, FALSE, None)
    \/ BusyDoAction

SpecOrder == InitOrder /\ [][NextOrder]_vars

----------------------------------------------------------------------------
(* parser.py.  A text is a sequence of one-character strings; indices are   *)
(* Python's (from 0).                                                      *)

At(text, i) == text[i + 1]

\* text[a:b]
Slice(text, a, b) == SubSeq(text, a + 1, b)

\* The characters of the texts, by what str.isalpha / isalnum / isspace say.
Letters == {"a", "b", "k", "n", "r", "v", "x"}

Digits == {"1"}

isalpha(c) == c \in Letters

isalnum(c) == c \in Letters \cup Digits

isspace(c) == c \in Whitespace

RECURSIVE IdentifierEnd(_, _)
IdentifierEnd(text, end) ==
    IF end < Len(text) /\ (isalnum(At(text, end)) \/ At(text, end) \in {"_", "-"})
    THEN IdentifierEnd(text, end + 1)
    ELSE end

\* _read_identifier: (name or None, end)
_read_identifier(text, start) ==
    IF start >= Len(text) THEN [name |-> None, end |-> start]
    ELSE IF ~(isalpha(At(text, start)) \/ At(text, start) = "_")
         THEN [name |-> None, end |-> start]
    ELSE LET end == IdentifierEnd(text, start + 1)
         IN  [name |-> Slice(text, start, end), end |-> end]

RECURSIVE SkipSpaces(_, _)
SkipSpaces(text, cursor) ==
    IF cursor < Len(text) /\ isspace(At(text, cursor))
    THEN SkipSpaces(text, cursor + 1)
    ELSE cursor

----------------------------------------------------------------------------
(* shlex.split(arg_text, posix=True), as _parse_arg_tokens calls it: the    *)
(* tokens, or ok = FALSE where shlex raises ValueError (no closing         *)
(* quotation, no escaped character).  st is shlex's state: " " between      *)
(* tokens, "a" in a word, a quote character in a quoted span, "\\" after a  *)
(* backslash (esc: the state to return to); quoted: the token had quotes.  *)

Quotes == {"\"", "'"}

RECURSIVE ShlexScan(_, _, _, _, _, _, _)
ShlexScan(s, i, st, esc, word, quoted, out) ==
    IF i >= Len(s)
    THEN IF st \in Quotes \/ st = "\\"
         THEN [ok |-> FALSE, tokens |-> out]
         ELSE [ok |-> TRUE,
               tokens |-> IF st = "a" /\ (word # <<>> \/ quoted)
                          THEN Append(out, word) ELSE out]
    ELSE LET c == At(s, i)
         IN  CASE st = " " ->
                    IF isspace(c) THEN ShlexScan(s, i + 1, " ", esc, <<>>, FALSE, out)
                    ELSE IF c = "\\" THEN ShlexScan(s, i + 1, "\\", "a", <<>>, FALSE, out)
                    ELSE IF c \in Quotes THEN ShlexScan(s, i + 1, c, esc, <<>>, FALSE, out)
                    ELSE ShlexScan(s, i + 1, "a", esc, <<c>>, FALSE, out)
               [] st \in Quotes ->
                    IF c = st THEN ShlexScan(s, i + 1, "a", esc, word, TRUE, out)
                    ELSE IF c = "\\" /\ st = "\""
                         THEN ShlexScan(s, i + 1, "\\", st, word, TRUE, out)
                    ELSE ShlexScan(s, i + 1, st, esc, Append(word, c), TRUE, out)
               [] st = "\\" ->
                    IF esc \in Quotes /\ c # "\\" /\ c # esc
                    THEN ShlexScan(s, i + 1, esc, esc, word \o <<"\\", c>>, quoted, out)
                    ELSE ShlexScan(s, i + 1, esc, esc, Append(word, c), quoted, out)
               [] OTHER ->
                    IF isspace(c)
                    THEN ShlexScan(s, i + 1, " ", esc, <<>>, FALSE,
                                   IF word # <<>> \/ quoted THEN Append(out, word) ELSE out)
                    ELSE IF c \in Quotes THEN ShlexScan(s, i + 1, c, esc, word, quoted, out)
                    ELSE IF c = "\\" THEN ShlexScan(s, i + 1, "\\", "a", word, quoted, out)
                    ELSE ShlexScan(s, i + 1, "a", esc, Append(word, c), quoted, out)

shlex_split(s) == ShlexScan(s, 0, " ", "a", <<>>, FALSE, <<>>)

\* The index of the first "=" of a token, Len(token) when it has none.
RECURSIVE FindEq(_, _)
FindEq(tok, i) ==
    IF i >= Len(tok) THEN i ELSE IF At(tok, i) = "=" THEN i ELSE FindEq(tok, i + 1)

\* The loop of _parse_arg_tokens taking a token whose key is empty or no
\* identifier for a positional parameter.
RECURSIVE ClassifyBadKeyAsParam(_, _, _)
ClassifyBadKeyAsParam(tokens, attributes, params) ==
    IF tokens = <<>> THEN [ok |-> TRUE, attributes |-> attributes, params |-> params]
    ELSE LET tok == Head(tokens)
             eq == FindEq(tok, 0)
             key == Slice(tok, 0, eq)
             value == Slice(tok, eq + 1, Len(tok))
         IN  IF eq >= Len(tok) \/ key = <<>> \/ _read_identifier(key, 0).name # key
             THEN ClassifyBadKeyAsParam(Tail(tokens), attributes, Append(params, tok))
             ELSE ClassifyBadKeyAsParam(Tail(tokens),
                                        [k \in DOMAIN attributes \cup {key} |->
                                            IF k = key THEN value ELSE attributes[k]],
                                        params)

\* The loop of _parse_arg_tokens over the tokens.
RECURSIVE ClassifyTokens(_, _, _)
ClassifyTokens(tokens, attributes, params) ==
    IF tokens = <<>> THEN [ok |-> TRUE, attributes |-> attributes, params |-> params]
    ELSE LET tok == Head(tokens)
             eq == FindEq(tok, 0)
             key == Slice(tok, 0, eq)
             value == Slice(tok, eq + 1, Len(tok))
         IN  IF eq >= Len(tok)
             THEN ClassifyTokens(Tail(tokens), attributes, Append(params, tok))
             ELSE IF key = <<>> \/ _read_identifier(key, 0).name # key
                  THEN [ok |-> FALSE, attributes |-> attributes, params |-> params]
             ELSE ClassifyTokens(Tail(tokens),
                                 [k \in DOMAIN attributes \cup {key} |->
                                     IF k = key THEN value ELSE attributes[k]],
                                 params)

\* _parse_arg_tokens: ok = FALSE where it raises ParseError.
_parse_arg_tokens(arg_text) ==
    IF arg_text = <<>> THEN [ok |-> TRUE, attributes |-> <<>>, params |-> <<>>]
    ELSE LET split == shlex_split(arg_text)
         IN  IF ~split.ok THEN [ok |-> FALSE, attributes |-> <<>>, params |-> <<>>]
             ELSE ClassifyTokens(split.tokens, <<>>, <<>>)

\* _find_cheatcode_close taking the first "/]" whatever the quoting.
RECURSIVE FindCloseIgnoringQuotes(_, _, _, _)
FindCloseIgnoringQuotes(text, i, quote, escaped) ==
    IF ~(i < Len(text) - 1) THEN -1
    ELSE IF At(text, i) = "/" /\ At(text, i + 1) = "]" THEN i
    ELSE FindCloseIgnoringQuotes(text, i + 1, quote, escaped)

\* The loop variables of _find_cheatcode_close; found: it has returned i.
CloseSearch(i, quote, escaped) ==
    [i |-> i, quote |-> quote, escaped |-> escaped, found |-> FALSE]

\* One iteration of the loop of _find_cheatcode_close that opens a quoted span
\* without moving on.
CloseSearchStaysAtQuote(text, search) ==
    LET ch == At(text, search.i)
    IN  IF search.escaped THEN [search EXCEPT !.i = @ + 1, !.escaped = FALSE]
        ELSE IF ch = "\\" THEN [search EXCEPT !.i = @ + 1, !.escaped = TRUE]
        ELSE IF search.quote # ""
             THEN [search EXCEPT !.i = @ + 1, !.quote = IF ch = search.quote THEN "" ELSE @]
        ELSE IF ch \in Quotes THEN [search EXCEPT !.quote = ch]
        ELSE IF ch = "/" /\ At(text, search.i + 1) = "]" THEN [search EXCEPT !.found = TRUE]
        ELSE [search EXCEPT !.i = @ + 1]

\* One iteration of the loop of _find_cheatcode_close, for i < len(text) - 1.
CloseSearchStep(text, search) ==
    LET ch == At(text, search.i)
    IN  IF search.escaped THEN [search EXCEPT !.i = @ + 1, !.escaped = FALSE]
        ELSE IF ch = "\\" THEN [search EXCEPT !.i = @ + 1, !.escaped = TRUE]
        ELSE IF search.quote # ""
             THEN [search EXCEPT !.i = @ + 1, !.quote = IF ch = search.quote THEN "" ELSE @]
        ELSE IF ch \in Quotes THEN [search EXCEPT !.i = @ + 1, !.quote = ch]
        ELSE IF ch = "/" /\ At(text, search.i + 1) = "]" THEN [search EXCEPT !.found = TRUE]
        ELSE [search EXCEPT !.i = @ + 1]

\* _find_cheatcode_close: the index of the "/" of the closing "/]", -1 where it
\* raises ParseError.  quote is "" outside quotes.
RECURSIVE _find_cheatcode_close(_, _, _, _)
_find_cheatcode_close(text, i, quote, escaped) ==
    IF ~(i < Len(text) - 1) THEN -1
    ELSE LET after == CloseSearchStep(text, CloseSearch(i, quote, escaped))
         IN  IF after.found THEN i
             ELSE _find_cheatcode_close(text, after.i, after.quote, after.escaped)

\* What _read_tag_token returns: kind "none" for (None, start), "error" where
\* it raises ParseError, else the token read and the cursor after it.
NoToken == [kind |-> "none", name |-> None, namespace |-> None, action |-> None,
            raw |-> <<>>, attributes |-> <<>>, params |-> <<>>,
            content_start |-> 0, raw_start |-> 0, next |-> 0]

TokenError == [NoToken EXCEPT !.kind = "error"]

ReadCloseToken(text, start) ==
    LET id == _read_identifier(text, start + 2)
    IN  IF id.name = None THEN TokenError
        ELSE IF id.end >= Len(text) \/ At(text, id.end) # "]" THEN TokenError
        ELSE [NoToken EXCEPT !.kind = "close", !.name = id.name,
                             !.raw = Slice(text, start, id.end + 1), !.next = id.end + 1]

ReadCheatcodeToken(text, start, namespace, colon) ==
    LET act == _read_identifier(text, colon + 1)
        cursor == SkipSpaces(text, act.end)
        close_at == _find_cheatcode_close(text, cursor, "", FALSE)
        args == _parse_arg_tokens(strip(Slice(text, cursor, close_at)))
    IN  IF act.name = None THEN TokenError
        ELSE IF close_at < 0 THEN TokenError
        ELSE IF ~args.ok THEN TokenError
        ELSE [NoToken EXCEPT !.kind = "cheatcode", !.namespace = namespace,
                             !.action = act.name, !.raw = Slice(text, start, close_at + 2),
                             !.attributes = args.attributes, !.params = args.params,
                             !.next = close_at + 2]

ReadOpenOrSingleToken(text, start, name, after) ==
    LET cursor == SkipSpaces(text, after)
    IN  IF cursor >= Len(text) THEN TokenError
        ELSE IF At(text, cursor) = "/"
             THEN IF cursor + 1 >= Len(text) \/ At(text, cursor + 1) # "]" THEN TokenError
                  ELSE [NoToken EXCEPT !.kind = "single", !.name = name,
                                       !.raw = Slice(text, start, cursor + 2),
                                       !.next = cursor + 2]
        ELSE IF At(text, cursor) # "]" THEN TokenError
        ELSE [NoToken EXCEPT !.kind = "open", !.name = name,
                             !.content_start = cursor + 1, !.raw_start = start,
                             !.raw = Slice(text, start, cursor + 1), !.next = cursor + 1]

_read_tag_token(text, start) ==
    IF start >= Len(text) \/ At(text, start) # "[" THEN [NoToken EXCEPT !.next = start]
    ELSE IF start + 1 >= Len(text) THEN [NoToken EXCEPT !.next = start]
    ELSE IF At(text, start + 1) = "/" THEN ReadCloseToken(text, start)
    ELSE LET id == _read_identifier(text, start + 1)
         IN  IF id.name = None THEN TokenError
             ELSE IF id.end < Len(text) /\ At(text, id.end) = ":"
                  THEN ReadCheatcodeToken(text, start, id.name, id.end)
             ELSE ReadOpenOrSingleToken(text, start, id.name, id.end)

----------------------------------------------------------------------------
(* parse_all, one iteration of its loop at a time.  A scan is the record    *)
(* of the loop's variables; status is "scan" while the loop runs, "ok" when *)
(* parse_all has returned tags and "error" when it has raised ParseError   *)
(* (no tags are returned then).                                            *)

Tag(tag_type, namespace, action, params, attributes, content, raw) ==
    [tag_type |-> tag_type, namespace |-> namespace, action |-> action,
     params |-> params, attributes |-> attributes, content |-> content, raw |-> raw]

StartScan == [cursor |-> 0, container_stack |-> <<>>, tags |-> <<>>, status |-> "scan"]

ScanError(scan) == [scan EXCEPT !.status = "error", !.tags = <<>>]

\* The branch for a close marker.
CloseStepNoNameCheck(text, scan, parsed) ==
    LET stack == scan.container_stack
        open_tag == stack[Len(stack)]
        rest == SubSeq(stack, 1, Len(stack) - 1)
    IN  IF stack = <<>> THEN ScanError(scan)
        ELSE [scan EXCEPT
                !.container_stack = rest,
                !.cursor = parsed.next,
                !.tags = IF rest = <<>>
                         THEN Append(@, Tag("double", None, open_tag.name, <<>>, <<>>,
                                            Slice(text, open_tag.content_start, scan.cursor),
                                            Slice(text, open_tag.raw_start, parsed.next)))
                         ELSE @]

\* CloseStep taking a container's raw text from its content on.
CloseStepRawFromContent(text, scan, parsed) ==
    LET stack == scan.container_stack
        open_tag == stack[Len(stack)]
        rest == SubSeq(stack, 1, Len(stack) - 1)
    IN  IF stack = <<>> THEN ScanError(scan)
        ELSE IF parsed.name # open_tag.name THEN ScanError(scan)
        ELSE [scan EXCEPT
                !.container_stack = rest,
                !.cursor = parsed.next,
                !.tags = IF rest = <<>>
                         THEN Append(@, Tag("double", None, open_tag.name, <<>>, <<>>,
                                            Slice(text, open_tag.content_start, scan.cursor),
                                            Slice(text, open_tag.content_start, parsed.next)))
                         ELSE @]

CloseStep(text, scan, parsed) ==
    LET stack == scan.container_stack
        open_tag == stack[Len(stack)]
        rest == SubSeq(stack, 1, Len(stack) - 1)
    IN  IF stack = <<>> THEN ScanError(scan)
        ELSE IF parsed.name # open_tag.name THEN ScanError(scan)
        ELSE [scan EXCEPT
                !.container_stack = rest,
                !.cursor = parsed.next,
                !.tags = IF rest = <<>>
                         THEN Append(@, Tag("double", None, open_tag.name, <<>>, <<>>,
                                            Slice(text, open_tag.content_start, scan.cursor),
                                            Slice(text, open_tag.raw_start, parsed.next)))
                         ELSE @]

\* The branch for a self-closing or namespaced tag.
TagStepReportsNested(text, include_nested, scan, parsed) ==
    [scan EXCEPT
       !.cursor = parsed.next,
       !.tags = IF parsed.kind = "single"
                THEN Append(@, Tag("single", None, parsed.name, <<>>, <<>>, None, parsed.raw))
                ELSE Append(@, Tag("cheatcode", parsed.namespace, parsed.action, parsed.params,
                                   parsed.attributes, None, parsed.raw))]

TagStep(text, include_nested, scan, parsed) ==
    IF ~include_nested /\ Len(scan.container_stack) > 0
    THEN [scan EXCEPT !.cursor = parsed.next]
    ELSE [scan EXCEPT
            !.cursor = parsed.next,
            !.tags = IF parsed.kind = "single"
                     THEN Append(@, Tag("single", None, parsed.name, <<>>, <<>>, None,
                                        parsed.raw))
                     ELSE Append(@, Tag("cheatcode", parsed.namespace, parsed.action,
                                        parsed.params, parsed.attributes, None, parsed.raw))]

\* What the scan does next: "finish" once the loop's condition fails, "skip"
\* for a character the loop steps over, else the kind of the token read.
StepKind(text, scan) ==
    IF scan.cursor >= Len(text) THEN "finish"
    ELSE IF At(text, scan.cursor) # "[" THEN "skip"
    ELSE LET kind == _read_tag_token(text, scan.cursor).kind
         IN  IF kind = "none" THEN "skip" ELSE kind

\* One iteration of the loop of parse_all, or the code after the loop.
ParseStep(text, include_nested, scan) ==
    LET kind == StepKind(text, scan)
        parsed == _read_tag_token(text, scan.cursor)
    IN  CASE kind = "finish" ->
                IF scan.container_stack # <<>> THEN ScanError(scan)
                ELSE [scan EXCEPT !.status = "ok"]
          [] kind = "skip" -> [scan EXCEPT !.cursor = @ + 1]
          [] kind = "error" -> ScanError(scan)
          [] kind = "open" ->
                [scan EXCEPT !.container_stack = Append(@, parsed), !.cursor = parsed.next]
          [] kind = "close" -> CloseStep(text, scan, parsed)
          [] OTHER -> TagStep(text, include_nested, scan, parsed)

RECURSIVE RunScan(_, _, _)
RunScan(text, include_nested, scan) ==
    IF scan.status # "scan" THEN scan
    ELSE RunScan(text, include_nested, ParseStep(text, include_nested, scan))

\* parse_all(text, include_nested): status "ok" and the tags, or status "error".
parse_all(text, include_nested) == RunScan(text, include_nested, StartScan)

StartsWith(value, prefix) ==
    Len(value) >= Len(prefix) /\ SubSeq(value, 1, Len(prefix)) = prefix

EndsWith(value, suffix) ==
    Len(value) >= Len(suffix)
        /\ SubSeq(value, Len(value) - Len(suffix) + 1, Len(value)) = suffix

\* The end of parse_tag: exactly one tag must have been parsed.
OnlyTag(parsed) ==
    IF parsed.status # "ok" \/ Len(parsed.tags) # 1 THEN [ok |-> FALSE, tag |-> None]
    ELSE [ok |-> TRUE, tag |-> parsed.tags[1]]

\* parse_tag on the stripped tag string
ParseStripped(text) ==
    IF ~(StartsWith(text, <<"[">>) /\ EndsWith(text, <<"]">>))
    THEN [ok |-> FALSE, tag |-> None]
    ELSE OnlyTag(parse_all(text, TRUE))

\* parse_tag(tag_string): ok = FALSE where it raises ParseError
parse_tag(tag_string) == ParseStripped(strip(tag_string))

\* The index of the first occurrence of sub in text from i on, -1 if none.
RECURSIVE Find(_, _, _)
Find(text, sub, i) ==
    IF i + Len(sub) > Len(text) THEN -1
    ELSE IF Slice(text, i, i + Len(sub)) = sub THEN i
    ELSE Find(text, sub, i + 1)

\* text.replace(sub, "", 1), for a non-empty sub
RemoveFirst(text, sub) ==
    LET at == Find(text, sub, 0)
    IN  IF at < 0 THEN text
        ELSE Slice(text, 0, at) \o Slice(text, at + Len(sub), Len(text))

\* The loop of remove_tags over reversed(tags): n tags are still to remove.
RECURSIVE RemoveRaws(_, _, _)
RemoveRaws(result, found, n) ==
    IF n = 0 THEN result ELSE RemoveRaws(RemoveFirst(result, found[n].raw), found, n - 1)

\* The end of remove_tags, for what parse_all(text) gave.
RemoveParsed(text, parsed) ==
    IF parsed.status # "ok" THEN [ok |-> FALSE, value |-> <<>>]
    ELSE IF parsed.tags = <<>> THEN [ok |-> TRUE, value |-> text]
    ELSE [ok |-> TRUE, value |-> strip(RemoveRaws(text, parsed.tags, Len(parsed.tags)))]

\* remove_tags(text): ok = FALSE where parse_all raises ParseError
remove_tags(text) == RemoveParsed(text, parse_all(text, FALSE))

----------------------------------------------------------------------------
(* parse_all as a state machine: a run parses one text, built from at most  *)
(* MaxPieces pieces (or one of the examples).                              *)

MaxPieces == 3

OpenMarker(name) == <<"[", name, "]">>

CloseMarker(name) == <<"[", "/", name, "]">>

SingleA == <<"[", "a", " ", "/", "]">>

CheatNR == <<"[", "n", ":", "r", " ", "k", "=", "v", " ", "/", "]">>

Pieces ==
    {OpenMarker("a"), CloseMarker("a"), OpenMarker("b"), CloseMarker("b"),
     <<"x">>, <<" ">>, SingleA, CheatNR, <<"[">>}

RECURSIVE Concats(_, _)
Concats(pieces, n) ==
    IF n = 0 THEN {<<>>}
    ELSE LET shorter == Concats(pieces, n - 1)
         IN  shorter \cup {t \o p : t \in shorter, p \in pieces}

\* [a][b]x[/a][/b] and [a]x [n:r k=v /] x[/a]
ExampleTexts ==
    {OpenMarker("a") \o OpenMarker("b") \o <<"x">> \o CloseMarker("a") \o CloseMarker("b"),
     OpenMarker("a") \o <<"x", " ">> \o CheatNR \o <<" ", "x">> \o CloseMarker("a")}

SingleB == <<"[", "b", " ", "/", "]">>

\* [a][b /][/a]x[b /] and [a][a /][/a][a /]: a tag's text occurs in a container
\* before it.
OverlapTexts ==
    {OpenMarker("a") \o SingleB \o CloseMarker("a") \o <<"x">> \o SingleB,
     OpenMarker("a") \o SingleA \o CloseMarker("a") \o SingleA}

\* [__a /], [n:r__ /], [n:r __k=v /]
IdentifierTexts ==
    {<<"[", "_", "_", "a", " ", "/", "]">>,
     <<"[", "n", ":", "r", "_", "_", " ", "/", "]">>,
     <<"[", "n", ":", "r", " ", "_", "_", "k", "=", "v", " ", "/", "]">>}

\* [n:r args /]
CheatArgs(args) == <<"[", "n", ":", "r", " ">> \o args \o <<" ", "/", "]">>

MaxArgPieces == 4

ArgPieces == {<<"\"">>, <<"'">>, <<"\\">>, <<"/", "]">>, <<"v">>, <<" ">>}

\* "[n:r " followed by at most MaxArgPieces pieces of quoting and "/]"
QuotedTexts == {<<"[", "n", ":", "r", " ">> \o rest : rest \in Concats(ArgPieces, MaxArgPieces)}

\* [a][b]x[/b][/a] and [a][a /][b][n:r k=v /][/b][/a]: a container in a container
NestedTexts ==
    {OpenMarker("a") \o OpenMarker("b") \o <<"x">> \o CloseMarker("b") \o CloseMarker("a"),
     OpenMarker("a") \o SingleA \o OpenMarker("b") \o CheatNR \o CloseMarker("b")
        \o CloseMarker("a")}

\* Argument tokens with and without "=": =v, 1k=v, "=", k-x=v, a=b=v, k=, x
AttributeTokens ==
    {<<"=", "v">>, <<"1", "k", "=", "v">>, <<"\"", "=", "\"">>,
     <<"k", "-", "x", "=", "v">>, <<"a", "=", "b", "=", "v">>, <<"k", "=">>, <<"x">>}

\* "[n:r token /]" and "[n:r token token /]"
AttributeTexts ==
    {CheatArgs(tok) : tok \in AttributeTokens}
      \cup {CheatArgs(first \o <<" ">> \o second) : first, second \in AttributeTokens}

Texts ==
    Concats(Pieces, MaxPieces) \cup ExampleTexts \cup OverlapTexts \cup IdentifierTexts
        \cup QuotedTexts \cup NestedTexts \cup AttributeTexts

Scan == [cursor |-> pcursor, container_stack |-> container_stack, tags |-> tags,
         status |-> pstatus]

HooksIdle ==
    /\ sut = "none"
    /\ hook = "none"
    /\ token = <<>>
    /\ busy_actions = <<>>
    /\ busy_filters = <<>>
    /\ next_action_id = 0
    /\ next_filter_id = 0
    /\ hooks_hooks = <<>>
    /\ filters_filters = <<>>
    /\ regs = 0
    /\ last = NoCall

InitParse ==
    /\ ptext \in Texts
    /\ pnested \in BOOLEAN
    /\ pcursor = StartScan.cursor
    /\ container_stack = StartScan.container_stack
    /\ tags = StartScan.tags
    /\ pstatus = StartScan.status
    /\ tag_starts = <<>>
    /\ presult = NoResult
    /\ HooksIdle
    /\ NamespacesIdle
    /\ ExecIdle

\* The scan moves on to `after`; a tag it appends was read from `start`.
Becomes(after, start) ==
    /\ pcursor' = after.cursor
    /\ container_stack' = after.container_stack
    /\ tags' = after.tags
    /\ pstatus' = after.status
    /\ tag_starts' = IF after.tags = <<>> THEN <<>>
                     ELSE IF Len(after.tags) > Len(tags) THEN Append(tag_starts, start)
                     ELSE tag_starts
    /\ UNCHANGED <<ptext, pnested, presult, hookVars, last, nsVars, execVars, concVars>>

\* A character that is not "[", or a "[" that ends the text.
SkipChar ==
    /\ pstatus = "scan"
    /\ StepKind(ptext, Scan) = "skip"
    /\ Becomes([Scan EXCEPT !.cursor = @ + 1], pcursor)

OpenContainer ==
    /\ pstatus = "scan"
    /\ StepKind(ptext, Scan) = "open"
    /\ LET parsed == _read_tag_token(ptext, pcursor)
       IN  Becomes([Scan EXCEPT !.container_stack = Append(@, parsed),
                                !.cursor = parsed.next], pcursor)

CloseContainer ==
    /\ pstatus = "scan"
    /\ StepKind(ptext, Scan) = "close"
    /\ Becomes(CloseStep(ptext, Scan, _read_tag_token(ptext, pcursor)),
               IF container_stack = <<>> THEN pcursor
               ELSE container_stack[Len(container_stack)].raw_start)

SingleTag ==
    /\ pstatus = "scan"
    /\ StepKind(ptext, Scan) = "single"
    /\ Becomes(TagStep(ptext, pnested, Scan, _read_tag_token(ptext, pcursor)), pcursor)

CheatcodeTag ==
    /\ pstatus = "scan"
    /\ StepKind(ptext, Scan) = "cheatcode"
    /\ Becomes(TagStep(ptext, pnested, Scan, _read_tag_token(ptext, pcursor)), pcursor)

\* _read_tag_token raises ParseError.
MalformedToken ==
    /\ pstatus = "scan"
    /\ StepKind(ptext, Scan) = "error"
    /\ Becomes(ScanError(Scan), pcursor)

\* The loop is over: unclosed containers raise, otherwise the tags are returned.
EndOfText ==
    /\ pstatus = "scan"
    /\ StepKind(ptext, Scan) = "finish"
    /\ Becomes(IF container_stack # <<>> THEN ScanError(Scan)
               ELSE [Scan EXCEPT !.status = "ok"], pcursor)

\* remove_tags(text)
RemoveTags ==
    /\ Scan = StartScan
    /\ ~pnested
    /\ LET removed == remove_tags(ptext)
       IN  presult' = [op |-> "remove_tags", ok |-> removed.ok, value |-> removed.value]
    /\ pstatus' = "done"
    /\ UNCHANGED <<ptext, pnested, pcursor, container_stack, tags, tag_starts,
                   hookVars, last, nsVars, execVars, concVars>>

\* parse_tag(tag_string)
ParseTag ==
    /\ Scan = StartScan
    /\ pnested
    /\ LET parsed == parse_tag(ptext)
       IN  presult' = [op |-> "parse_tag", ok |-> parsed.ok, value |-> parsed.tag]
    /\ pstatus' = "done"
    /\ UNCHANGED <<ptext, pnested, pcursor, container_stack, tags, tag_starts,
                   hookVars, last, nsVars, execVars, concVars>>

NextParse ==
    \/ RemoveTags
    \/ ParseTag
    \/ SkipChar
    \/ OpenContainer
    \/ CloseContainer
    \/ SingleTag
    \/ CheatcodeTag
    \/ MalformedToken
    \/ EndOfText

SpecParse == InitParse /\ [][NextParse]_vars

----------------------------------------------------------------------------
(* parse_all from its call on: the call, then the iterations of its loop.  *)

InitScan == ParserIdle /\ HooksIdle /\ NamespacesIdle /\ ExecIdle

\* parse_all(text, include_nested) is called: the assignments before the loop.
ParseAll(text, include_nested) ==
    /\ pstatus = "idle"
    /\ ptext' = text
    /\ pnested' = include_nested
    /\ pcursor' = StartScan.cursor
    /\ container_stack' = StartScan.container_stack
    /\ tags' = StartScan.tags
    /\ pstatus' = StartScan.status
    /\ UNCHANGED <<tag_starts, presult, hookVars, last, nsVars, execVars, concVars>>

\* An iteration of the loop, or the code after it.
ScanStep ==
    \/ SkipChar
    \/ OpenContainer
    \/ CloseContainer
    \/ SingleTag
    \/ CheatcodeTag
    \/ MalformedToken
    \/ EndOfText

NextScan ==
    \/ \E text \in Texts, include_nested \in BOOLEAN : ParseAll(text, include_nested)
    \/ ScanStep

\* What every iteration does to the cursor and to the status of the scan.
LoopRuns ==
    /\ pstatus = "scan"
    /\ pstatus' \in {"scan", "ok", "error"}
    /\ pcursor' \in 0..Len(ptext)

\* parse_all is straight-line code in one thread: while its loop is on, the
\* next iteration is executed.
SpecScan == InitScan /\ [][NextScan]_vars /\ WF_<<pcursor, pstatus>>(LoopRuns)

----------------------------------------------------------------------------
(* Namespace handlers: NamespaceRegistry and the module-level functions of  *)
(* busy_bridge.py, and their use by Context in core.py.  A dict is a        *)
(* function from its keys; names are sequences of characters, as the       *)
(* parser gives them.                                                      *)

EmptyDict == <<>>

\* The values of metadata["allowed_actions"]: None, or a list of action names.
PyNone == [t |-> "None"]

PyList(items) == [t |-> "list", items |-> items]

\* The other values of the metadata: a bool, or a dict with its entries.
PyBool(value) == [t |-> "bool", v |-> value]

PyDict(entries) == [t |-> "dict", d |-> entries]

\* bool(value) for a value of the metadata
Truthy(value) ==
    CASE value.t = "bool" -> value.v
      [] value.t = "list" -> value.items # <<>>
      [] value.t = "dict" -> DOMAIN value.d # {}
      [] OTHER -> FALSE

\* str.lower() on the letters of the model; "R" is its one capital.
LowerChar(ch) == IF ch = "R" THEN "r" ELSE ch

lower(value) == [i \in 1..Len(value) |-> LowerChar(value[i])]

ActionContainers == <<"actions", "action_metadata", "action_metadata_by_name">>

\* The loop of the three _extract_action_metadata functions over the container
\* names, from container i on: the dict of the action under `name` or under
\* `name_lc`, {} where no container holds one.
RECURSIVE ExtractFrom(_, _, _, _)
ExtractFrom(metadata, name, name_lc, i) ==
    IF i > Len(ActionContainers) THEN <<>>
    ELSE LET actions == IF ActionContainers[i] \in DOMAIN metadata
                        THEN metadata[ActionContainers[i]] ELSE [t |-> "None"]
         IN  IF actions.t # "dict" THEN ExtractFrom(metadata, name, name_lc, i + 1)
             ELSE IF name \in DOMAIN actions.d /\ actions.d[name].t = "dict"
                  THEN actions.d[name].d
             ELSE IF name_lc \in DOMAIN actions.d /\ actions.d[name_lc].t = "dict"
                  THEN actions.d[name_lc].d
             ELSE ExtractFrom(metadata, name, name_lc, i + 1)

\* busy_bridge._extract_action_metadata(metadata, action)
Bridge_extract_action_metadata(metadata, action) ==
    IF DOMAIN metadata = {} THEN <<>> ELSE ExtractFrom(metadata, action, lower(action), 1)

\* dict.get(key), None where the key is absent
Get(dict, key) == IF key \in DOMAIN dict THEN dict[key] ELSE PyNone

\* dict.update: the entries of `other` replace those of `dict`.
Update(dict, other) ==
    [key \in DOMAIN dict \cup DOMAIN other |->
        IF key \in DOMAIN other THEN other[key] ELSE dict[key]]

\* dict.pop(key): the dict without the key
Pop(dict, key) == [k \in DOMAIN dict \ {key} |-> dict[k]]

\* dict[key] = value
Put(dict, key, value) == Update(dict, [k \in {key} |-> value])

\* _validate_identifier with the punctuation `extra` allowed: TRUE where it
\* returns, FALSE where it raises ValueError.
ValidIdentifier(value, extra) ==
    /\ value # <<>>
    /\ ~(StartsWith(value, <<"_", "_">>) \/ EndsWith(value, <<"_", "_">>))
    /\ isalpha(value[1]) \/ value[1] = "_"
    /\ \A i \in 1..Len(value) : isalnum(value[i]) \/ value[i] \in extra

\* busy_bridge._validate_identifier
Bridge_validate_identifier(value) == ValidIdentifier(value, {"_", "-", ".", ":"})

\* core._validate_identifier
Core_validate_identifier(value) == ValidIdentifier(value, {"_", "-"})

\* NamespaceRegistry._validate_allowed_action_list, for None or a list of
\* strings: the list, None giving the empty list.
_validate_allowed_action_list(values) == IF values = PyNone THEN <<>> ELSE values.items

Elements(list) == {list[i] : i \in 1..Len(list)}

\* NamespaceRegistry._allowed_actions: the set of the allowed actions, with
\* restricted = FALSE where it returns None
_allowed_actions(namespace_metadata) ==
    IF DOMAIN namespace_metadata = {} THEN [restricted |-> FALSE, actions |-> {}]
    ELSE LET allowed == _validate_allowed_action_list(
                            Get(namespace_metadata, "allowed_actions"))
         IN  IF allowed # <<>> THEN [restricted |-> TRUE, actions |-> Elements(allowed)]
             ELSE [restricted |-> FALSE, actions |-> {}]

\* What register stores for its metadata argument (None where not given).
StoredMetadata(metadata) == IF metadata = PyNone THEN EmptyDict ELSE metadata

\* What get_metadata gives where it raises ValueError instead of returning a
\* dict.
MetadataRaises == [raised |-> "ValueError"]

\* NamespaceRegistry.get_metadata: _validate_identifier(namespace), then a copy
\* of the stored dict, the empty dict where there is none
get_metadata(metadata_by_namespace, namespace) ==
    IF ~Bridge_validate_identifier(namespace) THEN MetadataRaises
    ELSE IF namespace \in DOMAIN metadata_by_namespace
    THEN metadata_by_namespace[namespace] ELSE EmptyDict

\* NamespaceRegistry._validate_namespace_action: TRUE where it returns, FALSE
\* where it raises ValueError, be it from _validate_identifier(action), from
\* get_metadata(namespace) or for an action that is not allowed
_validate_namespace_action(metadata_by_namespace, namespace, action) ==
    /\ Bridge_validate_identifier(action)
    /\ get_metadata(metadata_by_namespace, namespace) # MetadataRaises
    /\ LET allowed == _allowed_actions(get_metadata(metadata_by_namespace, namespace))
       IN  ~(allowed.restricted /\ action \notin allowed.actions)

\* validate_action_metadata(namespace, action, metadata), bridge_metadata being
\* get_namespace_metadata(namespace): TRUE where it returns.
validate_action_metadata(namespace, action, metadata, bridge_metadata) ==
    /\ Bridge_validate_identifier(namespace)
    /\ Bridge_validate_identifier(action)
    /\ LET candidate_metadata == IF DOMAIN metadata # {} THEN metadata ELSE bridge_metadata
           allowed == Get(candidate_metadata, "allowed_actions")
           local == Bridge_extract_action_metadata(candidate_metadata, action)
       IN  /\ ~(allowed # PyNone
                /\ action \notin Elements(_validate_allowed_action_list(allowed)))
           /\ ~(/\ Truthy(Get(candidate_metadata, "forbid_dangermeta"))
                /\ "forbid" \in DOMAIN local
                /\ Truthy(local.forbid))

\* data.get("noResponse", data.get("no_response"))
NoResponseOf(data) ==
    IF "noResponse" \in DOMAIN data THEN data["noResponse"] ELSE Get(data, "no_response")

\* The loop `for data in (action metadata, metadata)`: the first bool found,
\* else False.
FirstNoResponse(action_metadata, metadata) ==
    IF NoResponseOf(action_metadata).t = "bool" THEN NoResponseOf(action_metadata).v
    ELSE IF NoResponseOf(metadata).t = "bool" THEN NoResponseOf(metadata).v
    ELSE FALSE

\* busy_bridge.should_suppress_cheatcode_response from its second statement
\* on, bridge_metadata being the dict get_namespace_metadata(namespace) returned
should_suppress_cheatcode_response(bridge_metadata, action) ==
    IF DOMAIN bridge_metadata = {} THEN FALSE
    ELSE FirstNoResponse(Bridge_extract_action_metadata(bridge_metadata, action),
                         bridge_metadata)

\* Context._extract_action_metadata
Context_extract_action_metadata(metadata, action) ==
    IF DOMAIN metadata = {} THEN <<>>
    ELSE ExtractFrom(metadata, strip(action), lower(strip(action)), 1)

\* Context.get_no_response, metadata being _resolve_namespace_metadata(namespace)
get_no_response(metadata, action) ==
    IF DOMAIN metadata = {} THEN FALSE
    ELSE FirstNoResponse(Context_extract_action_metadata(metadata, action), metadata)

\* core._freeze_kwargs: a copy of the keyword arguments
_freeze_kwargs(values) == [key \in DOMAIN values |-> values[key]]

\* core._merge_call_kwargs without its overlap check.
MergeIgnoringOverlap(tag_attrs, runtime_kwargs) ==
    [ok |-> TRUE, kwargs |-> _freeze_kwargs(Update(runtime_kwargs, tag_attrs))]

\* core._merge_call_kwargs: ok = FALSE where it raises ValueError
_merge_call_kwargs(tag_attrs, runtime_kwargs) ==
    IF DOMAIN tag_attrs \cap DOMAIN runtime_kwargs # {}
    THEN [ok |-> FALSE, kwargs |-> EmptyDict]
    ELSE [ok |-> TRUE, kwargs |-> _freeze_kwargs(Update(runtime_kwargs, tag_attrs))]

\* core._validate_tag_values: TRUE where it returns
_validate_tag_values(tag) ==
    /\ Core_validate_identifier(tag.action)
    /\ tag.namespace # None => Core_validate_identifier(tag.namespace)
    /\ \A key \in DOMAIN tag.attributes : Core_validate_identifier(key)

\* What a call does: the exception it raises ("none" where it returns) and
\* the handler invocations it makes.
Raises(exception) == [raised |-> exception, invoked |-> <<>>]

Invokes(handler, action, args, kwargs) ==
    [raised |-> "none",
     invoked |-> <<[handler |-> handler, action |-> action, args |-> args,
                    kwargs |-> kwargs]>>]

\* NamespaceRegistry.execute
Registry_execute(handlers, metadata_by_namespace, namespace, action, attributes) ==
    IF ~Bridge_validate_identifier(namespace) THEN Raises("ValueError")
    ELSE IF ~_validate_namespace_action(metadata_by_namespace, namespace, action)
         THEN Raises("ValueError")
    ELSE IF namespace \notin DOMAIN handlers THEN Raises("KeyError")
    ELSE IF \E key \in DOMAIN attributes : ~Bridge_validate_identifier(key)
         THEN Raises("ValueError")
    ELSE Invokes(handlers[namespace], action, <<>>,
                 [key \in DOMAIN attributes |-> _freeze(attributes[key])])

\* Context._resolve_namespace_handler asking the shared registry first.
ResolveSharedFirst(local_handlers, bridge_handlers, namespace) ==
    IF Bridge_validate_identifier(namespace) /\ namespace \in DOMAIN bridge_handlers
    THEN bridge_handlers[namespace]
    ELSE IF namespace \in DOMAIN local_handlers THEN local_handlers[namespace]
    ELSE "None"

\* Context._resolve_namespace_handler: "None" where there is none
_resolve_namespace_handler(local_handlers, bridge_handlers, namespace) ==
    IF namespace \in DOMAIN local_handlers THEN local_handlers[namespace]
    ELSE IF ~Bridge_validate_identifier(namespace) THEN "None"
    ELSE IF namespace \in DOMAIN bridge_handlers THEN bridge_handlers[namespace]
    ELSE "None"

\* Context._resolve_namespace_metadata
_resolve_namespace_metadata(local_metadata, bridge_metadata, namespace) ==
    LET local_payload == IF namespace \in DOMAIN local_metadata
                         THEN local_metadata[namespace] ELSE EmptyDict
        from_bridge == get_metadata(bridge_metadata, namespace)
    IN  IF from_bridge = MetadataRaises THEN local_payload
        ELSE Update(local_payload, from_bridge)

\* f"{tag.namespace}:{tag.action}"
HandlerKey(namespace, action) == namespace \o <<":">> \o action

\* The namespaced branch of Context.execute_tag and of Context.execute_async:
\* a local "namespace:action" handler, else a namespace handler.  ctx holds the
\* dicts of the Context, bridge those of the shared registry.
DispatchCheatcode(ctx, bridge, tag, kwargs) ==
    LET key == HandlerKey(tag.namespace, tag.action)
        safe_kwargs == _freeze_kwargs(kwargs)
        ns_handler == _resolve_namespace_handler(ctx.namespace_handlers, bridge.handlers,
                                                 tag.namespace)
        metadata == _resolve_namespace_metadata(ctx.namespace_metadata, bridge.metadata,
                                                tag.namespace)
        merged == _merge_call_kwargs(tag.attributes, safe_kwargs)
    IN  IF key \in DOMAIN ctx.handlers
        THEN IF ~merged.ok THEN Raises("ValueError")
             ELSE Invokes(ctx.handlers[key], tag.action, tag.params, merged.kwargs)
        ELSE IF ns_handler = "None" THEN Raises("ValueError")
        ELSE IF ~validate_action_metadata(tag.namespace, tag.action, metadata,
                                          get_metadata(bridge.metadata, tag.namespace))
             THEN Raises("ValueError")
        ELSE IF ~merged.ok THEN Raises("ValueError")
        ELSE Invokes(ns_handler, tag.action, <<>>, merged.kwargs)

\* The other branches: the model registers no container handler, and its
\* local handlers are all "namespace:action" ones.
DispatchOther(local, tag, kwargs) ==
    IF tag.tag_type = "double" THEN Raises("ValueError")
    ELSE IF tag.action \in DOMAIN local
         THEN Invokes(local[tag.action], tag.action, <<>>, _freeze_kwargs(kwargs))
    ELSE Raises("ValueError")

\* Context.execute_tag for what parse_tag gave, in Context.execute
ExecuteParsed(ctx, bridge, parsed, kwargs) ==
    IF ~parsed.ok THEN Raises("ParseError")
    ELSE IF ~_validate_tag_values(parsed.tag) THEN Raises("ValueError")
    ELSE IF parsed.tag.tag_type = "cheatcode"
         THEN DispatchCheatcode(ctx, bridge, parsed.tag, kwargs)
    ELSE DispatchOther(ctx.handlers, parsed.tag, kwargs)

\* Context.execute(tag_string, **kwargs): parse_tag, then execute_tag
Context_execute(ctx, bridge, tag_string, kwargs) ==
    ExecuteParsed(ctx, bridge, parse_tag(tag_string), kwargs)

\* The body of Context.execute_async for what parse_tag gave: the tag's values
\* are not validated.
ExecuteParsedAsync(ctx, bridge, parsed, kwargs) ==
    IF ~parsed.ok THEN Raises("ParseError")
    ELSE IF parsed.tag.tag_type = "cheatcode"
         THEN DispatchCheatcode(ctx, bridge, parsed.tag, kwargs)
    ELSE DispatchOther(ctx.handlers, parsed.tag, kwargs)

\* Context.execute_async(tag_string, **kwargs)
Context_execute_async(ctx, bridge, tag_string, kwargs) ==
    ExecuteParsedAsync(ctx, bridge, parse_tag(tag_string), kwargs)

\* Context.execute_cheatcode(namespace, action, attributes)
Context_execute_cheatcode(ctx, bridge, namespace, action, attributes) ==
    LET handler == _resolve_namespace_handler(ctx.namespace_handlers, bridge.handlers,
                                              namespace)
    IN  IF ~Core_validate_identifier(namespace) THEN Raises("ValueError")
        ELSE IF ~Core_validate_identifier(action) THEN Raises("ValueError")
        ELSE IF handler = "None" THEN Raises("KeyError")
        ELSE IF \E key \in DOMAIN attributes : ~Core_validate_identifier(key)
             THEN Raises("ValueError")
        ELSE Invokes(handler, action, <<>>, _freeze_kwargs(attributes))

----------------------------------------------------------------------------
(* The shared registry and one Context as a state machine.                  *)

NsNames == {<<"n">>}

NsActions == {<<"r">>, <<"x">>, <<"b">>}

\* Per-action metadata that forbid the action "r"
ForbidsR == PyDict([action \in {<<"r">>} |-> PyDict([forbid |-> PyBool(TRUE)])])

\* The metadata argument of a registration: not given, or a dict.
MetadataArgs ==
    {PyNone, EmptyDict,
     [allowed_actions |-> PyNone],
     [allowed_actions |-> PyList(<<>>)],
     [allowed_actions |-> PyList(<< <<"r">> >>)],
     [allowed_actions |-> PyList(<< <<"x">> >>)],
     [actions |-> ForbidsR],
     [actions |-> ForbidsR, forbid_dangermeta |-> PyBool(TRUE)]}

CheatTag(namespace, action, args) ==
    <<"[">> \o namespace \o <<":">> \o action \o args \o <<" ", "/", "]">>

TagStrings ==
    {CheatTag(<<"n">>, action, <<>>) : action \in NsActions}
      \cup {CheatTag(<<"n">>, <<"r">>, <<" ", "k", "=", "v">>),
            <<" ">> \o CheatTag(<<"n">>, <<"x">>, <<" ", "k", "=", "v">>),
            SingleA,
            OpenMarker("a") \o <<"x">> \o CloseMarker("a"),
            <<"x">> \o CheatTag(<<"n">>, <<"r">>, <<>>)}

\* The caller's keyword arguments
KwargsArgs == {EmptyDict, [key \in {<<"k">>} |-> <<"b">>], [key \in {<<"x">>} |-> <<"b">>]}

\* The attributes argument of NamespaceRegistry.execute
AttributesArgs == {EmptyDict} \cup {[key \in {<<"k">>} |-> value] : value \in Values}

NsCall(op, namespace, action, tag_string, kwargs, outcome) ==
    [op |-> op, namespace |-> namespace, action |-> action, tag_string |-> tag_string,
     kwargs |-> kwargs, raised |-> outcome.raised, invoked |-> outcome.invoked,
     ret |-> PyNone]

\* The outcome of a call that returns a bool
NsQuery(op, namespace, action, ret) ==
    [NsCall(op, namespace, action, <<>>, <<>>, Raises("none")) EXCEPT !.ret = PyBool(ret)]

\* The Context of the model
TheContext ==
    [handlers |-> ctx_handlers, namespace_handlers |-> ctx_namespace_handlers,
     namespace_metadata |-> ctx_namespace_metadata]

\* busy_bridge.cheatcode_registry
TheRegistry == [handlers |-> registry_handlers, metadata |-> registry_metadata]

InitNs ==
    /\ NamespacesIdle
    /\ HooksIdle
    /\ ParserIdle
    /\ ExecIdle

\* register_namespace replacing the registration of a registered namespace.
RegisterNamespaceOverwrites(namespace, metadata) ==
    /\ IF ~Bridge_validate_identifier(namespace)
       THEN /\ nscall' = NsCall("register_namespace", namespace, <<>>, <<>>, <<>>,
                                Raises("ValueError"))
            /\ UNCHANGED <<registry_handlers, registry_metadata>>
       ELSE /\ registry_handlers' = Put(registry_handlers, namespace, "shared_handler")
            /\ registry_metadata' = Put(registry_metadata, namespace, StoredMetadata(metadata))
            /\ nscall' = NsCall("register_namespace", namespace, <<>>, <<>>, <<>>,
                                Raises("none"))
    /\ UNCHANGED <<ctx_handlers, ctx_namespace_handlers, ctx_namespace_metadata,
                   hookVars, last, parseVars, execVars, concVars>>

\* busy_bridge.register_namespace(namespace, handler, metadata)
RegisterNamespace(namespace, metadata) ==
    /\ IF ~Bridge_validate_identifier(namespace) \/ namespace \in DOMAIN registry_handlers
       THEN /\ nscall' = NsCall("register_namespace", namespace, <<>>, <<>>, <<>>,
                                Raises("ValueError"))
            /\ UNCHANGED <<registry_handlers, registry_metadata>>
       ELSE /\ registry_handlers' = Put(registry_handlers, namespace, "shared_handler")
            /\ registry_metadata' = Put(registry_metadata, namespace, StoredMetadata(metadata))
            /\ nscall' = NsCall("register_namespace", namespace, <<>>, <<>>, <<>>,
                                Raises("none"))
    /\ UNCHANGED <<ctx_handlers, ctx_namespace_handlers, ctx_namespace_metadata,
                   hookVars, last, parseVars, execVars, concVars>>

\* busy_bridge.unregister_namespace(namespace)
UnregisterNamespace(namespace) ==
    /\ IF ~Bridge_validate_identifier(namespace)
       THEN /\ nscall' = NsCall("unregister_namespace", namespace, <<>>, <<>>, <<>>,
                                Raises("ValueError"))
            /\ UNCHANGED <<registry_handlers, registry_metadata>>
       ELSE IF namespace \notin DOMAIN registry_handlers
       THEN /\ nscall' = NsCall("unregister_namespace", namespace, <<>>, <<>>, <<>>,
                                Raises("KeyError"))
            /\ UNCHANGED <<registry_handlers, registry_metadata>>
       ELSE /\ registry_handlers' = Pop(registry_handlers, namespace)
            /\ registry_metadata' = Pop(registry_metadata, namespace)
            /\ nscall' = NsCall("unregister_namespace", namespace, <<>>, <<>>, <<>>,
                                Raises("none"))
    /\ UNCHANGED <<ctx_handlers, ctx_namespace_handlers, ctx_namespace_metadata,
                   hookVars, last, parseVars, execVars, concVars>>

\* Context.register_namespace(namespace, handler, metadata)
ContextRegisterNamespace(namespace, metadata) ==
    /\ IF ~Core_validate_identifier(namespace) \/ namespace \in DOMAIN ctx_namespace_handlers
       THEN /\ nscall' = NsCall("ctx_register_namespace", namespace, <<>>, <<>>, <<>>,
                                Raises("ValueError"))
            /\ UNCHANGED <<ctx_namespace_handlers, ctx_namespace_metadata>>
       ELSE /\ ctx_namespace_handlers' = Put(ctx_namespace_handlers, namespace,
                                             "local_handler")
            /\ ctx_namespace_metadata' = Put(ctx_namespace_metadata, namespace,
                                             StoredMetadata(metadata))
            /\ nscall' = NsCall("ctx_register_namespace", namespace, <<>>, <<>>, <<>>,
                                Raises("none"))
    /\ UNCHANGED <<registry_handlers, registry_metadata, ctx_handlers,
                   hookVars, last, parseVars, execVars, concVars>>

\* Context.unregister_namespace(namespace)
ContextUnregisterNamespace(namespace) ==
    /\ IF namespace \notin DOMAIN ctx_namespace_handlers
       THEN /\ nscall' = NsCall("ctx_unregister_namespace", namespace, <<>>, <<>>, <<>>,
                                Raises("KeyError"))
            /\ UNCHANGED <<ctx_namespace_handlers, ctx_namespace_metadata>>
       ELSE /\ ctx_namespace_handlers' = Pop(ctx_namespace_handlers, namespace)
            /\ ctx_namespace_metadata' = Pop(ctx_namespace_metadata, namespace)
            /\ nscall' = NsCall("ctx_unregister_namespace", namespace, <<>>, <<>>, <<>>,
                                Raises("none"))
    /\ UNCHANGED <<registry_handlers, registry_metadata, ctx_handlers,
                   hookVars, last, parseVars, execVars, concVars>>

\* cheatcode_registry.clear(), the NamespaceRegistry.clear of the shared
\* registry: both dicts emptied under the lock
ClearNamespaces ==
    /\ registry_handlers' = <<>>
    /\ registry_metadata' = <<>>
    /\ nscall' = NsCall("clear", <<>>, <<>>, <<>>, <<>>, Raises("none"))
    /\ UNCHANGED <<ctx_handlers, ctx_namespace_handlers, ctx_namespace_metadata,
                   hookVars, last, parseVars, execVars, concVars>>

\* Context.register("namespace:action")(func)
ContextRegister(namespace, action) ==
    /\ IF ~(Core_validate_identifier(namespace) /\ Core_validate_identifier(action))
       THEN /\ nscall' = NsCall("ctx_register", namespace, action, <<>>, <<>>,
                                Raises("ValueError"))
            /\ UNCHANGED ctx_handlers
       ELSE /\ ctx_handlers' = Put(ctx_handlers, HandlerKey(namespace, action),
                                   "local_function")
            /\ nscall' = NsCall("ctx_register", namespace, action, <<>>, <<>>,
                                Raises("none"))
    /\ UNCHANGED <<registry_handlers, registry_metadata, ctx_namespace_handlers,
                   ctx_namespace_metadata, hookVars, last, parseVars, execVars, concVars>>

\* busy_bridge.execute_cheatcode(namespace, action, attributes)
RegistryExecute(namespace, action, attributes) ==
    /\ nscall' = NsCall("registry_execute", namespace, action, <<>>, attributes,
                        Registry_execute(registry_handlers, registry_metadata,
                                         namespace, action, attributes))
    /\ UNCHANGED <<registry_handlers, registry_metadata, ctx_handlers,
                   ctx_namespace_handlers, ctx_namespace_metadata,
                   hookVars, last, parseVars, execVars, concVars>>

\* Context.execute_cheatcode(namespace, action, attributes)
ContextExecuteCheatcode(namespace, action, attributes) ==
    /\ nscall' = NsCall("ctx_execute_cheatcode", namespace, action, <<>>, attributes,
                        Context_execute_cheatcode(TheContext, TheRegistry, namespace,
                                                  action, attributes))
    /\ UNCHANGED <<registry_handlers, registry_metadata, ctx_handlers,
                   ctx_namespace_handlers, ctx_namespace_metadata,
                   hookVars, last, parseVars, execVars, concVars>>

\* Context.execute(tag_string, **kwargs)
ContextExecute(tag_string, kwargs) ==
    /\ nscall' = NsCall("ctx_execute", <<>>, <<>>, tag_string, kwargs,
                        Context_execute(TheContext, TheRegistry, tag_string, kwargs))
    /\ UNCHANGED <<registry_handlers, registry_metadata, ctx_handlers,
                   ctx_namespace_handlers, ctx_namespace_metadata,
                   hookVars, last, parseVars, execVars, concVars>>

\* Context.execute_async(tag_string, **kwargs)
ContextExecuteAsync(tag_string, kwargs) ==
    /\ nscall' = NsCall("ctx_execute_async", <<>>, <<>>, tag_string, kwargs,
                        Context_execute_async(TheContext, TheRegistry, tag_string,
                                              kwargs))
    /\ UNCHANGED <<registry_handlers, registry_metadata, ctx_handlers,
                   ctx_namespace_handlers, ctx_namespace_metadata,
                   hookVars, last, parseVars, execVars, concVars>>

NextNs ==
    \/ \E namespace \in NsNames, metadata \in MetadataArgs :
            RegisterNamespace(namespace, metadata)
    \/ \E namespace \in NsNames : UnregisterNamespace(namespace)
    \/ ClearNamespaces
    \/ \E namespace \in NsNames, metadata \in MetadataArgs :
            ContextRegisterNamespace(namespace, metadata)
    \/ \E namespace \in NsNames : ContextUnregisterNamespace(namespace)
    \/ \E namespace \in NsNames, action \in {<<"r">>, <<"x">>} :
            ContextRegister(namespace, action)
    \/ \E namespace \in NsNames, action \in NsActions \cup {<<"1">>},
          attributes \in AttributesArgs :
            RegistryExecute(namespace, action, attributes)
    \/ \E namespace \in NsNames, action \in NsActions, attributes \in AttributesArgs :
            ContextExecuteCheatcode(namespace, action, attributes)
    \/ \E tag_string \in TagStrings, kwargs \in KwargsArgs :
            ContextExecute(tag_string, kwargs)
    \/ \E tag_string \in TagStrings, kwargs \in KwargsArgs :
            ContextExecuteAsync(tag_string, kwargs)

SpecNs == InitNs /\ [][NextNs]_vars

----------------------------------------------------------------------------
(* NamespaceRegistry.execute in one thread while another thread calls       *)
(* unregister and then register for the same namespace.  A step of the     *)
(* executing thread is one `with self._lock` block or the call of the      *)
(* handler; the other thread's blocks take one step for each dict they     *)
(* update, the lock held in between.                                       *)

SwapMetadata ==
    {EmptyDict,
     [allowed_actions |-> PyList(<< <<"r">> >>)],
     [allowed_actions |-> PyList(<< <<"x">> >>)],
     [allowed_actions |-> PyList(<< <<"r">>, <<"x">> >>)]}

SwapActions == {<<"r">>, <<"x">>}

\* "n" is registered with "shared_handler"; one thread is about to call
\* execute("n", action), the other unregister("n") and then
\* register("n", handler2, metadata).
InitSwap ==
    /\ HooksIdle
    /\ ParserIdle
    /\ ctx_handlers = <<>>
    /\ ctx_namespace_handlers = <<>>
    /\ ctx_namespace_metadata = <<>>
    /\ nscall = NoNsCall
    /\ ctx_apply_filters = FALSE
    /\ ctx_container_handlers = <<>>
    /\ ctx_hooks = NoHooks
    /\ ctx_filters = <<>>
    /\ ex_phase = "idle"
    /\ ex_tags = <<>>
    /\ ex_index = 0
    /\ ex_result = NoValue
    /\ results = <<>>
    /\ events = <<>>
    /\ ex_mode = "none"
    /\ bridge_hooks = NoBridgeHooks
    /\ heap = <<>>
    /\ bucket_ref = 0
    /\ lock = Unlocked
    /\ registry_handlers = Put(<<>>, <<"n">>, "shared_handler")
    /\ \E first \in SwapMetadata, second \in SwapMetadata, action \in SwapActions :
          /\ registry_metadata = Put(<<>>, <<"n">>, first)
          /\ threads = [executor |-> [pc |-> "validate", namespace |-> <<"n">>,
                                      action |-> action, handler |-> "None"],
                        registrar |-> [pc |-> "unregister", namespace |-> <<"n">>,
                                       replaced |-> first, metadata |-> second]]

\* The call of the executing thread raised.
ExecuteRaised(exception) ==
    /\ nscall' = NsCall("registry_execute", threads.executor.namespace,
                        threads.executor.action, <<>>, <<>>, Raises(exception))
    /\ threads' = [threads EXCEPT !.executor.pc = "raised"]

\* execute: self._validate_namespace_action(namespace, action), which reads
\* the metadata in get_metadata's `with self._lock` block
ExecuteValidate ==
    LET me == threads.executor
    IN  /\ me.pc = "validate"
        /\ CanAcquire(lock, "executor")
        /\ IF _validate_namespace_action(registry_metadata, me.namespace, me.action)
           THEN /\ threads' = [threads EXCEPT !.executor.pc = "get"]
                /\ UNCHANGED nscall
           ELSE ExecuteRaised("ValueError")
        /\ UNCHANGED <<registry_handlers, registry_metadata, ctx_handlers,
                       ctx_namespace_handlers, ctx_namespace_metadata, hookVars, last,
                       parseVars, execVars, heap, bucket_ref, lock>>

\* execute: handler = self.get(namespace), in get's `with self._lock` block
ExecuteGet ==
    LET me == threads.executor
    IN  /\ me.pc = "get"
        /\ CanAcquire(lock, "executor")
        /\ IF me.namespace \in DOMAIN registry_handlers
           THEN /\ threads' = [threads EXCEPT !.executor.pc = "call",
                                              !.executor.handler =
                                                  registry_handlers[me.namespace]]
                /\ UNCHANGED nscall
           ELSE ExecuteRaised("KeyError")
        /\ UNCHANGED <<registry_handlers, registry_metadata, ctx_handlers,
                       ctx_namespace_handlers, ctx_namespace_metadata, hookVars, last,
                       parseVars, execVars, heap, bucket_ref, lock>>

\* execute: return handler.execute(action, **safe_attrs)
ExecuteCall ==
    LET me == threads.executor
    IN  /\ me.pc = "call"
        /\ nscall' = NsCall("registry_execute", me.namespace, me.action, <<>>, <<>>,
                            Invokes(me.handler, me.action, <<>>, EmptyDict))
        /\ threads' = [threads EXCEPT !.executor.pc = "done"]
        /\ UNCHANGED <<registry_handlers, registry_metadata, ctx_handlers,
                       ctx_namespace_handlers, ctx_namespace_metadata, hookVars, last,
                       parseVars, execVars, heap, bucket_ref, lock>>

\* unregister: `with self._lock`, self._handlers.pop(namespace)
UnregisterPopHandler ==
    LET me == threads.registrar
    IN  /\ me.pc = "unregister"
        /\ CanAcquire(lock, "registrar")
        /\ IF me.namespace \notin DOMAIN registry_handlers
           THEN /\ threads' = [threads EXCEPT !.registrar.pc = "raised"]
                /\ UNCHANGED <<registry_handlers, lock>>
           ELSE /\ lock' = Acquire(lock, "registrar")
                /\ registry_handlers' = Pop(registry_handlers, me.namespace)
                /\ threads' = [threads EXCEPT !.registrar.pc = "pop_metadata"]
        /\ UNCHANGED <<registry_metadata, ctx_handlers, ctx_namespace_handlers,
                       ctx_namespace_metadata, nscall, hookVars, last, parseVars, execVars,
                       heap, bucket_ref>>

\* unregister: self._metadata.pop(namespace, None), and the block is left
UnregisterPopMetadata ==
    LET me == threads.registrar
    IN  /\ me.pc = "pop_metadata"
        /\ registry_metadata' = Pop(registry_metadata, me.namespace)
        /\ lock' = Release(lock)
        /\ threads' = [threads EXCEPT !.registrar.pc = "register"]
        /\ UNCHANGED <<registry_handlers, ctx_handlers, ctx_namespace_handlers,
                       ctx_namespace_metadata, nscall, hookVars, last, parseVars, execVars,
                       heap, bucket_ref>>

\* register: `with self._lock`, self._handlers[namespace] = handler
RegisterSetHandler ==
    LET me == threads.registrar
    IN  /\ me.pc = "register"
        /\ CanAcquire(lock, "registrar")
        /\ IF me.namespace \in DOMAIN registry_handlers
           THEN /\ threads' = [threads EXCEPT !.registrar.pc = "raised"]
                /\ UNCHANGED <<registry_handlers, lock>>
           ELSE /\ lock' = Acquire(lock, "registrar")
                /\ registry_handlers' = Put(registry_handlers, me.namespace, "handler2")
                /\ threads' = [threads EXCEPT !.registrar.pc = "set_metadata"]
        /\ UNCHANGED <<registry_metadata, ctx_handlers, ctx_namespace_handlers,
                       ctx_namespace_metadata, nscall, hookVars, last, parseVars, execVars,
                       heap, bucket_ref>>

\* register: self._metadata[namespace] = dict(metadata), and the block is left
RegisterSetMetadata ==
    LET me == threads.registrar
    IN  /\ me.pc = "set_metadata"
        /\ registry_metadata' = Put(registry_metadata, me.namespace,
                                    StoredMetadata(me.metadata))
        /\ lock' = Release(lock)
        /\ threads' = [threads EXCEPT !.registrar.pc = "done"]
        /\ UNCHANGED <<registry_handlers, ctx_handlers, ctx_namespace_handlers,
                       ctx_namespace_metadata, nscall, hookVars, last, parseVars, execVars,
                       heap, bucket_ref>>

NextSwap ==
    \/ ExecuteValidate
    \/ ExecuteGet
    \/ ExecuteCall
    \/ UnregisterPopHandler
    \/ UnregisterPopMetadata
    \/ RegisterSetHandler
    \/ RegisterSetMetadata

SpecSwap == InitSwap /\ [][NextSwap]_vars

----------------------------------------------------------------------------
(* The noResponse / no_response metadata: namespaces registered in the      *)
(* shared registry and in the Context, and the two queries.                 *)

ActionSays(key, value) == PyDict([action \in {<<"r">>} |-> PyDict([k \in {key} |-> PyBool(value)])])

\* The metadata of the registrations
ResponseMetadataArgs ==
    {EmptyDict,
     [no_response |-> PyBool(TRUE)],
     [noResponse |-> PyBool(FALSE)],
     [no_response |-> PyBool(TRUE), actions |-> ActionSays("noResponse", FALSE)],
     [actions |-> ActionSays("no_response", TRUE)],
     [noResponse |-> PyBool(FALSE), action_metadata |-> ActionSays("noResponse", TRUE)]}

\* The namespace argument of the queries: the name of the registrations, and
\* one that _validate_identifier refuses
QueriedNamespaces == NsNames \cup {<<"_", "_", "n">>}

\* The action argument of the queries
QueriedActions == {<<"r">>, <<"x">>, <<"R">>, <<" ", "r">>}

\* busy_bridge.should_suppress_cheatcode_response(namespace, action)
ShouldSuppress(namespace, action) ==
    /\ LET metadata == get_metadata(registry_metadata, namespace)
       IN  IF metadata = MetadataRaises
           THEN nscall' = NsCall("should_suppress_cheatcode_response", namespace, action,
                                 <<>>, <<>>, Raises("ValueError"))
           ELSE nscall' = NsQuery("should_suppress_cheatcode_response", namespace, action,
                                  should_suppress_cheatcode_response(metadata, action))
    /\ UNCHANGED <<registry_handlers, registry_metadata, ctx_handlers,
                   ctx_namespace_handlers, ctx_namespace_metadata,
                   hookVars, last, parseVars, execVars, concVars>>

\* Context.get_no_response(namespace, action)
GetNoResponse(namespace, action) ==
    /\ nscall' = NsQuery("get_no_response", namespace, action,
                         get_no_response(
                             _resolve_namespace_metadata(ctx_namespace_metadata,
                                                         registry_metadata, namespace),
                             action))
    /\ UNCHANGED <<registry_handlers, registry_metadata, ctx_handlers,
                   ctx_namespace_handlers, ctx_namespace_metadata,
                   hookVars, last, parseVars, execVars, concVars>>

NextMeta ==
    \/ \E namespace \in NsNames, metadata \in ResponseMetadataArgs :
            RegisterNamespace(namespace, metadata)
    \/ \E namespace \in NsNames : UnregisterNamespace(namespace)
    \/ \E namespace \in NsNames, metadata \in ResponseMetadataArgs :
            ContextRegisterNamespace(namespace, metadata)
    \/ \E namespace \in NsNames : ContextUnregisterNamespace(namespace)
    \/ ClearNamespaces
    \/ \E namespace \in QueriedNamespaces, action \in QueriedActions :
            ShouldSuppress(namespace, action)
    \/ \E namespace \in QueriedNamespaces, action \in QueriedActions :
            GetNoResponse(namespace, action)

SpecMeta == InitNs /\ [][NextMeta]_vars

----------------------------------------------------------------------------
(* core.py: Context.execute_text and Context.execute_tag, a step for each   *)
(* stage of the dispatch of a tag.  The runs register no namespace handler  *)
(* and no callback on the shared busy_bridge hooks, so the emit() calls of  *)
(* the namespaced branch call nothing.                                      *)

MaxCallbacks == 3

\* add_action(hook_name, callback, priority=10)
DefaultPriority == 10

\* The functions the runs register as handlers: raising_function raises an
\* Exception, local_function returns a list.
Functions == {"local_function", "raising_function"}

FunctionRaises(func) == func = "raising_function"

\* async_function is an `async def`: calling it returns a coroutine, which is
\* awaitable; awaiting it gives the list the function returns.
FunctionResult(func, args) ==
    IF func = "async_function" THEN [kind |-> "awaitable", n |-> Len(args)]
    ELSE [kind |-> "list", n |-> Len(args)]

\* inspect.isawaitable(result)
isawaitable(result) == result.kind = "awaitable"

\* `if inspect.isawaitable(result): result = await result`
Await(result) == IF isawaitable(result) THEN [kind |-> "list", n |-> result.n] ELSE result

\* The patterns of Context.register and the names of register_container
Patterns == {<<"a">>, <<"n", ":", "r">>, <<"_", "_", "a">>}

ContainerNames == {<<"a">>, <<"a", "_", "_">>}

ExecHookNames == {"before_execute", "after_execute"}

\* Context.register(pattern): TRUE where the pattern's identifiers are valid.
Context_register(pattern) ==
    LET colon == Find(pattern, <<":">>, 0)
    IN  IF colon >= 0
        THEN /\ Core_validate_identifier(Slice(pattern, 0, colon))
             /\ Core_validate_identifier(Slice(pattern, colon + 1, Len(pattern)))
        ELSE Core_validate_identifier(pattern)

\* Context._execute_container
_execute_container(container_handlers, tag, kwargs) ==
    IF tag.action \notin DOMAIN container_handlers THEN Raises("ValueError")
    ELSE Invokes(container_handlers[tag.action], tag.action, <<tag.content>>,
                 _freeze_kwargs(kwargs))

\* The dispatch of Context.execute_tag by tag_type
Dispatch(ctx, bridge, container_handlers, tag, kwargs) ==
    IF tag.tag_type = "double" THEN _execute_container(container_handlers, tag, kwargs)
    ELSE IF tag.tag_type = "cheatcode" THEN DispatchCheatcode(ctx, bridge, tag, kwargs)
    ELSE DispatchOther(ctx.handlers, tag, kwargs)

\* A call of a callback or of a handler, for the tag in slot `slot` of the
\* results; `value` is the result an after_execute callback is given.
Event(kind, callback, slot, tag, value) ==
    [kind |-> kind, callback |-> callback, slot |-> slot, tag |-> tag, value |-> value]

EventsFrom(log, kind, slot, tag, value) ==
    [i \in 1..Len(log) |-> Event(kind, log[i].callback, slot, tag, value)]

\* The slots of the results: what execute_tag returned, or the error record,
\* whose "error" is the str() of the exception named.
ValueSlot(value) == [kind |-> "value", value |-> value]

ErrorSlot(exception, tag) == [kind |-> "error", error |-> exception, tag |-> tag.raw]

\* `for tag in tags` with the tag reached taken from the far end.
TagAtReversed(tag_list, index) == tag_list[Len(tag_list) + 1 - index]

\* `for tag in tags`: the tag the loop is at
TagAt(tag_list, index) == tag_list[index]

\* The loop goes to the next tag, or the call returns the results.
Advance(index, count) ==
    IF index < count THEN [index |-> index + 1, phase |-> "before"]
    ELSE [index |-> index, phase |-> "returned"]

\* An exception that leaves execute_text.
AfterExceptionAborts(index, count) == [index |-> index, phase |-> "raised"]

\* `except Exception`: the error record is stored and the loop goes on.
AfterException(index, count) == Advance(index, count)

\* execute_tag without its filter stage.
PhaseSkippingFilters(apply_filters) == "after"

\* `if self._apply_filters`
PhaseAfterHandler(apply_filters) == IF apply_filters THEN "filter" ELSE "after"

ExecTexts ==
    {CheatTag(<<"n">>, <<"r">>, <<" ", "1">>) \o <<" ">> \o OpenMarker("a") \o <<"x">>
        \o CloseMarker("a"),
     SingleA \o <<"[", "_", "_", "a", " ", "/", "]">> \o SingleA,
     SingleA \o CheatTag(<<"n">>, <<"x">>, <<>>) \o OpenMarker("a") \o <<"x">>
        \o CloseMarker("a"),
     OpenMarker("a") \o SingleA \o CloseMarker("a") \o SingleB,
     OpenMarker("a"),
     SingleA \o OpenMarker("a"),
     SingleA \o CloseMarker("a"),
     <<"x">>}

\* Context(apply_filters)
InitExec ==
    /\ HooksIdle
    /\ ThreadsIdle
    /\ ParserIdle
    /\ NamespacesIdle
    /\ ctx_apply_filters \in BOOLEAN
    /\ ctx_container_handlers = <<>>
    /\ ctx_hooks = NoHooks
    /\ ctx_filters = <<>>
    /\ ex_phase = "idle"
    /\ ex_tags = <<>>
    /\ ex_index = 0
    /\ ex_result = NoValue
    /\ results = <<>>
    /\ events = <<>>
    /\ ex_mode = "none"
    /\ bridge_hooks = NoBridgeHooks

\* busy38_hooks._next_action_id: the runs register on the two cheatcode hook
\* points only.
BridgeCallbacksAdded == Len(bridge_hooks.pre_cheatcode_execute) + Len(bridge_hooks.post_cheatcode_execute)

CallbacksAdded == Len(ctx_hooks.before_execute) + Len(ctx_hooks.after_execute) + Len(ctx_filters) + BridgeCallbacksAdded

\* Context.register(pattern)(func)
ExecRegister(pattern, func) ==
    /\ ex_phase = "idle"
    /\ ctx_handlers' = IF Context_register(pattern) THEN Put(ctx_handlers, pattern, func)
                       ELSE ctx_handlers
    /\ UNCHANGED <<registry_handlers, registry_metadata, ctx_namespace_handlers,
                   ctx_namespace_metadata, nscall, hookVars, last, parseVars, execVars, concVars>>

\* Context.register_container(tag_name)(func)
ExecRegisterContainer(tag_name, func) ==
    /\ ex_phase = "idle"
    /\ ctx_container_handlers' = IF Core_validate_identifier(tag_name)
                                 THEN Put(ctx_container_handlers, tag_name, func)
                                 ELSE ctx_container_handlers
    /\ UNCHANGED <<ex_mode, bridge_hooks, ctx_apply_filters, ctx_hooks, ctx_filters, ex_phase, ex_tags, ex_index,
                   ex_result, results, events, hookVars, last, parseVars, nsVars, concVars>>

\* ctx.hooks.add_action(hook_name, callback)
ExecAddAction(hook_name, callback) ==
    /\ ex_phase = "idle"
    /\ CallbacksAdded < MaxCallbacks
    /\ ctx_hooks' = [ctx_hooks EXCEPT ![hook_name] =
                        Hooks_add_action(@, hook_name, callback, DefaultPriority,
                                         CallbacksAdded)]
    /\ UNCHANGED <<ex_mode, bridge_hooks, ctx_apply_filters, ctx_container_handlers, ctx_filters, ex_phase, ex_tags,
                   ex_index, ex_result, results, events, hookVars, last, parseVars, nsVars, concVars>>

\* ctx.filters.add_filter("result", callback)
ExecAddFilter(callback) ==
    /\ ex_phase = "idle"
    /\ CallbacksAdded < MaxCallbacks
    /\ ctx_filters' = Filters_add_filter(ctx_filters, callback, DefaultPriority,
                                          CallbacksAdded)
    /\ UNCHANGED <<ex_mode, bridge_hooks, ctx_apply_filters, ctx_container_handlers, ctx_hooks, ex_phase, ex_tags,
                   ex_index, ex_result, results, events, hookVars, last, parseVars, nsVars, concVars>>

\* The loop of execute_text moves on from the tag it is at.
MoveOn(next) ==
    /\ ex_index' = next.index
    /\ ex_phase' = next.phase
    /\ ex_result' = NoValue

\* The exception an execute_tag raised is caught and recorded.
Captured(exception) ==
    /\ results' = Append(results, ErrorSlot(exception, TagAt(ex_tags, ex_index)))
    /\ MoveOn(AfterException(ex_index, Len(ex_tags)))

\* What a call of execute or execute_async gave its caller when it raised.
RaisedSlot(exception) == [kind |-> "raised", error |-> exception]

\* Context.execute and Context.execute_async have no try: the exception
\* leaves the call.
Propagated(exception) ==
    /\ results' = <<RaisedSlot(exception)>>
    /\ MoveOn([index |-> ex_index, phase |-> "raised"])

\* Every call recording the exception in its results, as execute_text does.
ThrownIsRecorded(exception) == Captured(exception)

\* An exception raised while a tag is executed.
Thrown(exception) == IF ex_mode = "text" THEN Captured(exception) ELSE Propagated(exception)

\* _execute_cheatcode emits the two hook points; execute_async and the other
\* branches of execute_tag emit nothing.
Emits(mode, tag) == mode # "async" /\ tag.tag_type = "cheatcode"

\* emit(hook_point, ...): busy38_hooks.do_action, inside try/except
EmitEvents(emits, bucket, hook_point, slot, tag, value) ==
    IF emits THEN EventsFrom(Busy_do_action(bucket).log, hook_point, slot, tag, value)
    ELSE <<>>

\* The handler called before the pre-execute hook is emitted.
HandlerBeforePre(pre, called, post) == called \o pre \o post

\* The order of _execute_cheatcode: the pre-execute emission, the handler,
\* the post-execute emission.
InOrder(pre, called, post) == pre \o called \o post

\* What parse_all gives for the longest of the first n prefixes of the text
\* that it parses.
RECURSIVE ParsedPrefix(_, _)
ParsedPrefix(text, n) ==
    IF parse_all(Slice(text, 0, n), FALSE).status = "ok"
    THEN parse_all(Slice(text, 0, n), FALSE)
    ELSE ParsedPrefix(text, n - 1)

\* execute_text executing the tags before the malformed part of a text.
StartedRunsPrefix(text, parsed) ==
    /\ ptext' = text
    /\ ex_mode' = "text"
    /\ LET run == IF parsed.status = "error" THEN ParsedPrefix(text, Len(text)) ELSE parsed
       IN  /\ ex_tags' = run.tags
           /\ ex_index' = Advance(0, Len(run.tags)).index
           /\ ex_phase' = Advance(0, Len(run.tags)).phase
    /\ UNCHANGED <<bridge_hooks, ctx_apply_filters, ctx_container_handlers, ctx_hooks, ctx_filters,
                   ex_result, results, events, hookVars, last, nsVars, pnested, pcursor,
                   container_stack, tags, pstatus, tag_starts, presult, concVars>>

\* execute_text once parse_all has returned or raised
Started(text, parsed) ==
    /\ ptext' = text
    /\ ex_mode' = "text"
    /\ IF parsed.status = "error"
       THEN /\ ex_phase' = "raised"
            /\ UNCHANGED <<ex_tags, ex_index>>
       ELSE /\ ex_tags' = parsed.tags
            /\ ex_index' = Advance(0, Len(parsed.tags)).index
            /\ ex_phase' = Advance(0, Len(parsed.tags)).phase
    /\ UNCHANGED <<bridge_hooks, ctx_apply_filters, ctx_container_handlers, ctx_hooks, ctx_filters,
                   ex_result, results, events, hookVars, last, nsVars, pnested, pcursor,
                   container_stack, tags, pstatus, tag_starts, presult, concVars>>

\* Context.execute_text(text): tags = parse_all(text)
ExecuteText(text) ==
    /\ ex_phase = "idle"
    /\ Started(text, parse_all(text, FALSE))

\* Callbacks that assign to the Tag they are given: tag.action = "x" and
\* tag.attributes["k"] = "b".
RewritingCallbacks == {"sets_action", "sets_attribute"}

\* The Tag after a callback was given it.
CallbackAssigns(callback, tag) ==
    CASE callback = "sets_action" -> [tag EXCEPT !.action = <<"x">>]
      [] callback = "sets_attribute" -> [tag EXCEPT !.attributes = Put(@, <<"k">>, <<"b">>)]
      [] OTHER -> tag

\* Hooks.do_action passes _freeze(tag), and _freeze returns what is no dict,
\* list, set or tuple as it is: the callbacks are given the Tag of execute_tag
\* itself, one after the other.
RECURSIVE Received(_, _)
Received(log, tag) ==
    IF log = <<>> THEN tag
    ELSE Received(Tail(log), CallbackAssigns(Head(log).callback, tag))

\* The calls do_action("before_execute", tag) makes: each callback is called
\* with the Tag as the callbacks before it left it.
BeforeEvents(log, slot, tag) ==
    [i \in 1..Len(log) |->
        Event("before_execute", log[i].callback, slot,
              Received(SubSeq(log, 1, i - 1), tag), NoValue)]

\* execute_tag: _validate_tag_values(tag), then do_action("before_execute", tag)
BeforeExecute ==
    /\ ex_phase = "before"
    /\ LET tag == TagAt(ex_tags, ex_index)
           log == Hooks_do_action(ctx_hooks.before_execute).log
       IN  IF ex_mode # "async" /\ ~_validate_tag_values(tag)
           THEN /\ Thrown("ValueError")
                /\ UNCHANGED <<events, ex_tags>>
           ELSE /\ events' = events \o BeforeEvents(log, ex_index, tag)
                /\ ex_tags' = IF Received(log, tag) = tag THEN ex_tags
                               ELSE [ex_tags EXCEPT ![ex_index] = Received(log, tag)]
                /\ ex_phase' = "handler"
                /\ UNCHANGED <<ex_index, ex_result, results>>
    /\ UNCHANGED <<ex_mode, bridge_hooks, ctx_apply_filters, ctx_container_handlers, ctx_hooks, ctx_filters,
                   hookVars, last, parseVars, nsVars, concVars>>

\* execute_tag and execute_async: the handler is looked up and called; in
\* _execute_cheatcode between the emissions of the two hook points
InvokeHandler ==
    /\ ex_phase = "handler"
    /\ LET tag == TagAt(ex_tags, ex_index)
           outcome == Dispatch(TheContext, TheRegistry, ctx_container_handlers, tag, EmptyDict)
           call == outcome.invoked[1]
           result == FunctionResult(call.handler, call.args)
           pre == EmitEvents(Emits(ex_mode, tag), bridge_hooks.pre_cheatcode_execute,
                             "pre_cheatcode_execute", ex_index, tag, NoValue)
           called == <<Event("handler", call.handler, ex_index, tag, NoValue)>>
           post == EmitEvents(Emits(ex_mode, tag), bridge_hooks.post_cheatcode_execute,
                              "post_cheatcode_execute", ex_index, tag, _freeze(result))
       IN  IF outcome.raised # "none"
           THEN /\ Thrown(outcome.raised)
                /\ events' = events \o InOrder(pre, <<>>, <<>>)
           ELSE IF FunctionRaises(call.handler)
           THEN /\ Thrown("Exception")
                /\ events' = events \o InOrder(pre, called, <<>>)
           ELSE /\ events' = events \o InOrder(pre, called, post)
                /\ ex_result' = result
                /\ ex_phase' = IF ex_mode = "async" THEN "await"
                               ELSE PhaseAfterHandler(ctx_apply_filters)
                /\ UNCHANGED <<ex_index, results>>
    /\ UNCHANGED <<ex_mode, bridge_hooks, ctx_apply_filters, ctx_container_handlers, ctx_hooks,
                   ctx_filters, ex_tags, hookVars, last, parseVars, nsVars, concVars>>

\* execute_async: `if inspect.isawaitable(result): result = await result`
AwaitResult ==
    /\ ex_phase = "await"
    /\ ex_result' = Await(ex_result)
    /\ ex_phase' = PhaseAfterHandler(ctx_apply_filters)
    /\ UNCHANGED <<ex_mode, bridge_hooks, ctx_apply_filters, ctx_container_handlers, ctx_hooks,
                   ctx_filters, ex_tags, ex_index, results, events, hookVars, last,
                   parseVars, nsVars, concVars>>

\* execute_tag: result = self.filters.apply_filters("result", result, tag)
ApplyFilters ==
    /\ ex_phase = "filter"
    /\ LET filtered == Filters_apply_filters(ctx_filters, ex_result)
       IN  /\ ex_result' = filtered.ret
           /\ events' = events \o EventsFrom(filtered.log, "result", ex_index,
                                             TagAt(ex_tags, ex_index), NoValue)
    /\ ex_phase' = "after"
    /\ UNCHANGED <<ex_mode, bridge_hooks, ctx_apply_filters, ctx_container_handlers, ctx_hooks, ctx_filters, ex_tags,
                   ex_index, results, hookVars, last, parseVars, nsVars, concVars>>

\* execute_tag: do_action("after_execute", tag, result) and the return, whose
\* value execute_text appends to the results
AfterExecute ==
    /\ ex_phase = "after"
    /\ events' = events \o EventsFrom(Hooks_do_action(ctx_hooks.after_execute).log,
                                      "after_execute", ex_index, TagAt(ex_tags, ex_index),
                                      _freeze(ex_result))
    /\ results' = Append(results, ValueSlot(ex_result))
    /\ MoveOn(Advance(ex_index, Len(ex_tags)))
    /\ UNCHANGED <<ex_mode, bridge_hooks, ctx_apply_filters, ctx_container_handlers, ctx_hooks, ctx_filters, ex_tags,
                   hookVars, last, parseVars, nsVars, concVars>>

NextExec ==
    \/ \E pattern \in Patterns, func \in Functions : ExecRegister(pattern, func)
    \/ \E tag_name \in ContainerNames : ExecRegisterContainer(tag_name, "local_function")
    \/ \E hook_name \in ExecHookNames, callback \in Callbacks :
            ExecAddAction(hook_name, callback)
    \/ \E callback \in Callbacks : ExecAddFilter(callback)
    \/ \E text \in ExecTexts : ExecuteText(text)
    \/ BeforeExecute
    \/ InvokeHandler
    \/ ApplyFilters
    \/ AfterExecute

SpecExec == InitExec /\ [][NextExec]_vars

----------------------------------------------------------------------------
(* core.py: Context.execute and Context.execute_async, the execution of a   *)
(* single tag string, with callbacks on the Context's hooks and filters and *)
(* on the two cheatcode hook points of busy_bridge.busy38_hooks.            *)

BridgeHookPoints == {"pre_cheatcode_execute", "post_cheatcode_execute"}

\* The tag strings executed: a namespaced tag, a simple tag, a tag whose name
\* and one whose attribute key is refused by _validate_tag_values, and a
\* string parse_tag refuses.
ExecTagStrings ==
    {CheatTag(<<"n">>, <<"r">>, <<" ", "1">>), SingleA,
     <<"[", "_", "_", "a", " ", "/", "]">>,
     CheatTag(<<"n">>, <<"r">>, <<" ", "_", "_", "k", "=", "v">>), <<"x">>}

\* on_pre_cheatcode_execute(callback) / on_post_cheatcode_execute(callback):
\* busy38_hooks.add_action(hook_point, callback, 10)
BridgeAddAction(hook_point, callback) ==
    /\ ex_phase = "idle"
    /\ CallbacksAdded < MaxCallbacks
    /\ bridge_hooks' = [bridge_hooks EXCEPT ![hook_point] =
                            _register(@, callback, DefaultPriority, BridgeCallbacksAdded)]
    /\ UNCHANGED <<ex_mode, ctx_apply_filters, ctx_container_handlers, ctx_hooks, ctx_filters,
                   ex_phase, ex_tags, ex_index, ex_result, results, events, hookVars, last,
                   parseVars, nsVars, concVars>>

\* execute / execute_async once parse_tag has returned or raised
StartedTag(mode, tag_string, parsed) ==
    /\ ptext' = tag_string
    /\ ex_mode' = mode
    /\ IF ~parsed.ok
       THEN /\ results' = <<RaisedSlot("ParseError")>>
            /\ ex_phase' = "raised"
            /\ UNCHANGED <<ex_tags, ex_index>>
       ELSE /\ ex_tags' = <<parsed.tag>>
            /\ ex_index' = 1
            /\ ex_phase' = "before"
            /\ UNCHANGED results
    /\ UNCHANGED <<bridge_hooks, ctx_apply_filters, ctx_container_handlers, ctx_hooks,
                   ctx_filters, ex_result, events, hookVars, last, nsVars, pnested, pcursor,
                   container_stack, tags, pstatus, tag_starts, presult, concVars>>

\* Context.execute(tag_string): tag = parse_tag(tag_string)
Execute(tag_string) ==
    /\ ex_phase = "idle"
    /\ StartedTag("execute", tag_string, parse_tag(tag_string))

\* Context.execute_async(tag_string): tag = parse_tag(tag_string)
ExecuteAsync(tag_string) ==
    /\ ex_phase = "idle"
    /\ StartedTag("async", tag_string, parse_tag(tag_string))

\* busy_bridge.register_namespace(namespace, handler) before the call
RegisterShared(namespace) ==
    /\ ex_phase = "idle"
    /\ RegisterNamespace(namespace, PyNone)

NextTag ==
    \/ \E func \in {"raising_function", "async_function"} :
            ExecRegister(<<"n", ":", "r">>, func)
    \/ \E namespace \in NsNames : RegisterShared(namespace)
    \/ \E callback \in Callbacks : ExecAddAction("after_execute", callback)
    \/ \E callback \in Callbacks : ExecAddFilter(callback)
    \/ \E hook_point \in BridgeHookPoints, callback \in Callbacks :
            BridgeAddAction(hook_point, callback)
    \/ \E tag_string \in ExecTagStrings : Execute(tag_string)
    \/ \E tag_string \in ExecTagStrings : ExecuteAsync(tag_string)
    \/ BeforeExecute
    \/ InvokeHandler
    \/ AwaitResult
    \/ ApplyFilters
    \/ AfterExecute

SpecTag == InitExec /\ [][NextTag]_vars

----------------------------------------------------------------------------
(* Context.execute with before_execute callbacks that assign to the Tag    *)
(* they are given.                                                          *)

NextRewrite ==
    \/ ExecRegister(<<"n", ":", "r">>, "local_function")
    \/ \E namespace \in NsNames : RegisterShared(namespace)
    \/ \E callback \in Callbacks \cup RewritingCallbacks :
            ExecAddAction("before_execute", callback)
    \/ \E tag_string \in ExecTagStrings : Execute(tag_string)
    \/ BeforeExecute
    \/ InvokeHandler
    \/ ApplyFilters
    \/ AfterExecute

SpecRewrite == InitExec /\ [][NextRewrite]_vars

----------------------------------------------------------------------------
(* Claims about the hook registries                                        *)

RemoveOps == {"remove_action", "remove_filter", "remove_all_actions", "remove_all_filters"}

OnBusy == sut \in {"busy_actions", "busy_filters"}

\* The bucket the run's calls work on.
Bucket ==
    CASE sut = "busy_actions" -> busy_actions
      [] sut = "busy_filters" -> busy_filters
      [] sut = "hooks" -> hooks_hooks
      [] OTHER -> filters_filters

\* The call passes allow_critical=true together with the configured secret.
PassesSecret(call) == call.allow_critical /\ call.removal_token = token

SomeEntryGone(before, after) ==
    \E i \in 1..Len(before) : \A j \in 1..Len(after) : after[j] # before[i]

\* C1 as stated: on a critical hook a removal call that does not pass
\* allow_critical=true together with the configured secret raises
\* PermissionError and leaves both buckets as they were; an entry of a critical
\* hook disappears only in a removal call that passes both.
C1_AsStated ==
    [][ (OnBusy /\ hook \in _CRITICAL_HOOKS) =>
          /\ (last'.op \in RemoveOps /\ ~PassesSecret(last')) =>
                /\ last'.raised = "PermissionError"
                /\ busy_actions' = busy_actions
                /\ busy_filters' = busy_filters
          /\ (SomeEntryGone(busy_actions, busy_actions')
                \/ SomeEntryGone(busy_filters, busy_filters')) =>
                /\ last'.op \in RemoveOps
                /\ PassesSecret(last')
                /\ last'.raised = "none" ]_vars

KeyRegistered(bucket, key) == \E i \in 1..Len(bucket) : ~Keeps(bucket[i], key)

\* What C2 asks of one step: a remove_action / remove_filter call on a critical
\* hook that passes allow_critical=true and the secret does not raise, and when
\* its key names a registered entry it returns true and the entry is gone.
\* (The permission check does not read the key, so a refused call stands for
\* the call with every key, the registered ones included.)
AuthorizedRemovalSucceeds ==
    /\ last'.raised = "none"
    /\ KeyRegistered(Bucket, last'.key) =>
          /\ last'.ret = TRUE
          /\ Len(Bucket') < Len(Bucket)
          /\ ~KeyRegistered(Bucket', last'.key)

AuthorizedRemovalCall ==
    /\ OnBusy /\ hook \in _CRITICAL_HOOKS
    /\ Bucket # <<>>
    /\ last'.op \in {"remove_action", "remove_filter"}
    /\ PassesSecret(last')

\* C2 as stated: the authorized removal succeeds for every value of the
\* configured secret.
C2_AsStated == [][ AuthorizedRemovalCall => AuthorizedRemovalSucceeds ]_vars

\* The place of an entry in the order of registration.
RegNo(entry) == IF OnBusy THEN entry.entry_id[2] ELSE entry.reg

InvokeOps == {"do_action", "apply"}

\* C6: with callbacks registered by add calls only, do_action / apply /
\* apply_filters invoke every one of them, in ascending priority and, at equal
\* priority, in the order of registration.
C6_PriorityThenRegistrationOrder ==
    (last.op \in InvokeOps /\ Len(Bucket) = regs) =>
        /\ Len(last.log) = regs
        /\ \A i, j \in 1..Len(last.log) :
              i < j =>
                \/ last.log[i].priority < last.log[j].priority
                \/ /\ last.log[i].priority = last.log[j].priority
                   /\ RegNo(last.log[i]) < RegNo(last.log[j])

\* C6 witness: priorities [20, 10, 10] were registered and the callbacks ran
\* second, third, first.
C6_Witness ==
    /\ last.op \in InvokeOps
    /\ Len(last.log) = 3
    /\ <<RegNo(last.log[1]), RegNo(last.log[2]), RegNo(last.log[3])>> = <<1, 2, 0>>
    /\ <<last.log[1].priority, last.log[2].priority, last.log[3].priority>>
         = <<10, 10, 20>>

\* C7: do_action returns normally and has invoked every entry of the hook once,
\* in order, whichever callbacks raised.
C7_DoActionIsolatesCallbacks ==
    last.op = "do_action" => (last.raised = "none" /\ last.log = Bucket)

\* C7 witness: a callback raised and the callbacks after it were still invoked.
C7_Witness ==
    /\ last.op = "do_action"
    /\ Len(last.log) = 3
    /\ CallbackRaises(last.log[1].callback)
    /\ ~CallbackRaises(last.log[2].callback)
    /\ ~CallbackRaises(last.log[3].callback)
    /\ last.raised = "none"

\* What threading `start` through the bucket gives when a raising callback
\* contributes nothing: every callback that returns adds one to the payload.
Threaded(bucket, start) ==
    [kind |-> start.kind,
     n |-> start.n + Cardinality({i \in 1..Len(bucket) : ~CallbackRaises(bucket[i].callback)})]

\* C8 as stated: apply returns the initial value threaded through the callbacks,
\* the original value when none is registered.
C8_AsStated ==
    last.op = "apply" =>
        /\ last.raised = "none"
        /\ last.ret = Threaded(Bucket, last.value)

\* C8 amended: BusyHookRegistry.apply threads the initial value; apply_filters
\* of Filters threads the frozen initial value (list -> tuple, set ->
\* frozenset, dict -> read-only mapping) when a filter is registered; with no
\* filter registered both return the original value.
C8_ApplyThreadsValue ==
    last.op = "apply" =>
        /\ last.raised = "none"
        /\ last.log = Bucket
        /\ last.ret = IF sut = "filters" /\ Bucket # <<>>
                      THEN Threaded(Bucket, _freeze(last.value))
                      ELSE Threaded(Bucket, last.value)
        /\ Bucket = <<>> => last.ret = last.value

\* C8 witness: apply_filters of a list, with a raising filter followed by one
\* that returns, gave a tuple.
C8_Witness ==
    /\ sut = "filters" /\ last.op = "apply"
    /\ last.value.kind = "list"
    /\ Len(last.log) >= 2
    /\ CallbackRaises(last.log[1].callback)
    /\ ~CallbackRaises(last.log[2].callback)
    /\ last.ret = [kind |-> "tuple", n |-> last.value.n + 1]

\* The identifiers of the registrations a BusyHookRegistry holds, actions and
\* filters together.
HeldIds == [i \in 1..Len(busy_actions) |-> busy_actions[i].entry_id] \o [i \in 1..Len(busy_filters) |-> busy_filters[i].entry_id]

\* C26 as stated: identifiers are unique within a registry across actions and
\* filters alike, so no two registrations the registry holds carry the same
\* identifier.
C26_AsStated == \A i, j \in 1..Len(HeldIds) : HeldIds[i] = HeldIds[j] => i = j

\* The entries of a bucket
Held(bucket) == {bucket[i] : i \in 1..Len(bucket)}

\* C29: a callback that calls add_action or remove_action on the registry
\* whose do_action is calling it is never left waiting for the lock, which
\* nobody holds while callbacks run, and the emission calls exactly the
\* entries registered when do_action took its snapshot, in their order: not an
\* entry added meanwhile, and also an entry removed meanwhile.
C29_ReentrantSnapshot ==
    LET me == threads.emitter
    IN  /\ me.pc # "blocked"
        /\ me.pc = "calling" => lock = Unlocked
        /\ Len(me.log) <= Len(me.registered)
        /\ me.log = SubSeq(me.registered, 1, Len(me.log))
        /\ me.pc = "done" => me.log = me.registered

\* An emission has ended during which one callback added an entry and one
\* removed an entry that the emission called all the same.
C29_Witness ==
    /\ threads.emitter.pc = "done"
    /\ Held(busy_actions) \ Held(threads.emitter.registered) # {}
    /\ Held(threads.emitter.registered) \ Held(busy_actions) # {}
    /\ Held(threads.emitter.log) \ Held(busy_actions) # {}

\* The list is in the order every completed registration leaves it in.
InPriorityOrder(bucket) ==
    \A i, j \in 1..Len(bucket) : i < j => bucket[i].priority <= bucket[j].priority

\* C30 as stated: on every registry, also Hooks and Filters, once a concurrent
\* add (of f3) and remove (of f1) have both returned the added callback is
\* registered, and the list do_action reads is never one that an unfinished
\* registration has appended to and not yet sorted.
C30_AsStated ==
    /\ (threads.adder.pc = "done" /\ threads.remover.pc = "done")
          => \E i \in 1..Len(Current) : Current[i].callback = "f3"
    /\ threads.emitter.pc = "done" => InPriorityOrder(threads.emitter.callbacks)

\* The number in an entry id: the value of the counter at the registration.
RegistrationNo(entry) == entry.entry_id[2]

\* C33 as stated: whatever was added and removed before, do_action calls the
\* registered callbacks in ascending priority and, among equal priorities, in
\* the order in which they were registered.
C33_AsStated ==
    last.op = "do_action" =>
        /\ last.log = busy_actions
        /\ \A i, j \in 1..Len(last.log) :
              i < j =>
                \/ last.log[i].priority < last.log[j].priority
                \/ /\ last.log[i].priority = last.log[j].priority
                   /\ RegistrationNo(last.log[i]) < RegistrationNo(last.log[j])

----------------------------------------------------------------------------
(* Claims about parse_all (SpecParse) *)

Container(name, content) ==
    Tag("double", None, name, <<>>, <<>>, content,
        OpenMarker(name) \o content \o CloseMarker(name))

\* The token at the cursor is a close marker that does not name the innermost
\* open container (or there is none).
UnbalancedClose ==
    /\ StepKind(ptext, Scan) = "close"
    /\ \/ container_stack = <<>>
       \/ container_stack[Len(container_stack)].name
              # _read_tag_token(ptext, pcursor).name

UnclosedAtEnd == StepKind(ptext, Scan) = "finish" /\ container_stack # <<>>

Raised == pstatus = "error" /\ tags = <<>>

RaisingExamples ==
    {OpenMarker("a") \o <<"x">> \o CloseMarker("b"),
     OpenMarker("a") \o OpenMarker("b") \o <<"x">> \o CloseMarker("a") \o CloseMarker("b"),
     OpenMarker("a") \o <<"x">>,
     CloseMarker("a")}

\* C9: parse_all keeps containers balanced with a stack. A close marker that
\* does not name the innermost open container (or comes with none open) and a
\* container still open at the end of the input raise ParseError and no tags are
\* returned; a close marker that names the innermost open container pops it;
\* "[a]x[/a]" returns exactly one container tag with content "x", and
\* "[a]x[/b]", "[a][b]x[/a][/b]", "[a]x" and "[/a]" raise.
C9_ContainerBalance ==
    [][pstatus = "scan" =>
         /\ ((UnbalancedClose \/ UnclosedAtEnd) /\ pstatus' # "done") => Raised'
         /\ (StepKind(ptext, Scan) = "close" /\ ~UnbalancedClose) =>
                /\ pstatus' = "scan"
                /\ container_stack' = SubSeq(container_stack, 1, Len(container_stack) - 1)
         /\ pstatus' = "ok" => container_stack' = <<>>
         /\ (/\ pstatus' \in {"ok", "error"}
             /\ ptext = OpenMarker("a") \o <<"x">> \o CloseMarker("a")) =>
                /\ pstatus' = "ok"
                /\ tags' = <<Container("a", <<"x">>)>>
         /\ (pstatus' \in {"ok", "error"} /\ ptext \in RaisingExamples) => Raised'
      ]_vars

\* "[a][b]x[/a][/b]" was refused at "[/a]", with "b" the innermost open container.
C9_Witness ==
    /\ ptext = OpenMarker("a") \o OpenMarker("b") \o <<"x">> \o CloseMarker("a")
                 \o CloseMarker("b")
    /\ pcursor = 7
    /\ Raised

InertPieces == {<<"x">>, <<" ">>, SingleA, CheatNR}

\* Contents made of plain text and well-formed single or namespaced tags.
Contents ==
    Concats(InertPieces, MaxPieces - 2) \cup {<<"x", " ">> \o CheatNR \o <<" ", "x">>}

\* ptext is one container around such a content.
IsContainerOf(name, content) == ptext = OpenMarker(name) \o content \o CloseMarker(name)

\* C10: with include_nested false, a single or namespaced tag read while a
\* container is open is not reported, and parse_all of a container whose
\* content holds well-formed single or namespaced tags returns exactly one tag:
\* the outer container, its content the text between its markers verbatim.
C10_NestedTagsStayContent ==
    [][(pstatus = "scan" /\ ~pnested) =>
         /\ (StepKind(ptext, Scan) \in {"single", "cheatcode"} /\ container_stack # <<>>) =>
                tags' = tags /\ pstatus' = "scan"
         /\ \A name \in {"a", "b"}, content \in Contents :
                (IsContainerOf(name, content) /\ pstatus' \in {"ok", "error"}) =>
                    /\ pstatus' = "ok"
                    /\ tags' = <<Container(name, content)>>
      ]_vars

\* "[a]x [n:r k=v /] x[/a]" was parsed without include_nested.
C10_Witness ==
    /\ ~pnested
    /\ pstatus = "ok"
    /\ IsContainerOf("a", <<"x", " ">> \o CheatNR \o <<" ", "x">>)
    /\ Len(tags) = 1
    /\ tags[1].content = <<"x", " ">> \o CheatNR \o <<" ", "x">>

\* The self-closing or namespaced tag the scan reads at the cursor.
TagRead ==
    LET parsed == _read_tag_token(ptext, pcursor)
    IN  IF parsed.kind = "single"
        THEN Tag("single", None, parsed.name, <<>>, <<>>, None, parsed.raw)
        ELSE Tag("cheatcode", parsed.namespace, parsed.action, parsed.params,
                 parsed.attributes, None, parsed.raw)

\* The container that the close marker at the cursor closes.
ContainerClosed ==
    LET open_tag == container_stack[Len(container_stack)]
    IN  Tag("double", None, open_tag.name, <<>>, <<>>,
            Slice(ptext, open_tag.content_start, pcursor),
            Slice(ptext, open_tag.raw_start, _read_tag_token(ptext, pcursor).next))

\* C32 as stated: with include_nested true every tag read inside a container
\* is reported: a nested self-closing or namespaced tag when it is read, and a
\* nested container when its close marker is read.
C32_AsStated ==
    [][(pstatus = "scan" /\ pnested /\ container_stack # <<>>) =>
         /\ StepKind(ptext, Scan) \in {"single", "cheatcode"} =>
                tags' = Append(tags, TagRead)
         /\ (StepKind(ptext, Scan) = "close" /\ ~UnbalancedClose) =>
                tags' = Append(tags, ContainerClosed)
      ]_vars

----------------------------------------------------------------------------
(* Claims about remove_tags, parse_tag and the tokens (SpecParse) *)

\* The top-level tags of the text (include_nested false).
TopLevel(text) == parse_all(text, FALSE)

\* C11: for a text in which parse_all finds no tag, remove_tags returns the
\* text with leading and trailing whitespace trimmed.
C11_AsStated ==
    (/\ presult.op = "remove_tags"
     /\ TopLevel(ptext).status = "ok"
     /\ TopLevel(ptext).tags = <<>>)
        => presult.ok /\ presult.value = strip(ptext)

\* The text from `from` on without the spans of the tags i.. of `found`, which
\* lie in it from left to right.
RECURSIVE WithoutSpans(_, _, _, _)
WithoutSpans(text, found, i, from) ==
    IF i > Len(found) THEN Slice(text, from, Len(text))
    ELSE LET at == Find(text, found[i].raw, from)
         IN  Slice(text, from, at)
                \o WithoutSpans(text, found, i + 1, at + Len(found[i].raw))

\* C12: for a text that parses (with at least one tag), remove_tags returns
\* the text with exactly the source spans of its top-level tags deleted, then
\* trimmed, also when the raw text of a top-level tag occurs earlier inside
\* another top-level tag.
C12_AsStated ==
    (/\ presult.op = "remove_tags"
     /\ TopLevel(ptext).status = "ok"
     /\ TopLevel(ptext).tags # <<>>)
        => /\ presult.ok
           /\ presult.value = strip(WithoutSpans(ptext, TopLevel(ptext).tags, 1, 0))

Wrapped(text) == StartsWith(text, <<"[">>) /\ EndsWith(text, <<"]">>)

\* C13: parse_tag returns the tag of every string that, trimmed, is exactly
\* one top-level tag (a container may hold nested tags), and raises ParseError
\* when the trimmed string is not wrapped in [...] or holds zero or more than
\* one top-level tag.
C13_AsStated ==
    presult.op = "parse_tag" =>
        LET text == strip(ptext)
            top == TopLevel(text)
        IN  /\ (top.status = "ok" /\ Len(top.tags) = 1 /\ top.tags[1].raw = text)
                  => presult.ok /\ presult.value = top.tags[1]
            /\ (~Wrapped(text) \/ (top.status = "ok" /\ Len(top.tags) # 1))
                  => ~presult.ok

WellFormedKinds == {"close", "open", "cheatcode", "single"}

\* C14: a "[" met by the scan that does not begin a well-formed close marker,
\* open marker, namespaced tag or self-closing tag makes parse_all raise
\* ParseError, wherever it stands in the text.
C14_AsStated ==
    [][(/\ pstatus = "scan"
        /\ pstatus' # "done"
        /\ pcursor < Len(ptext)
        /\ At(ptext, pcursor) = "["
        /\ _read_tag_token(ptext, pcursor).kind \notin WellFormedKinds)
          => pstatus' = "error"
      ]_vars

Reserved(identifier) ==
    StartsWith(identifier, <<"_", "_">>) \/ EndsWith(identifier, <<"_", "_">>)

CarriesReserved(tag) ==
    \/ Reserved(tag.action)
    \/ tag.namespace # None /\ Reserved(tag.namespace)
    \/ \E key \in DOMAIN tag.attributes : Reserved(key)

\* C15: no tag whose namespace, action or attribute key starts or ends with a
\* double underscore is returned by parse_all or parse_tag.
C15_AsStated ==
    /\ pstatus = "ok" => \A i \in 1..Len(tags) : ~CarriesReserved(tags[i])
    /\ (presult.op = "parse_tag" /\ presult.ok) => ~CarriesReserved(presult.value)

\* The quoting at position j of the arguments that begin at `start`: the open
\* quote ("" outside quotes) and whether a backslash came just before.
RECURSIVE Quoting(_, _, _)
Quoting(text, start, j) ==
    IF j <= start THEN [quote |-> "", escaped |-> FALSE]
    ELSE LET before == Quoting(text, start, j - 1)
             ch == At(text, j - 1)
         IN  IF before.escaped THEN [before EXCEPT !.escaped = FALSE]
             ELSE IF ch = "\\" THEN [before EXCEPT !.escaped = TRUE]
             ELSE IF before.quote # ""
                  THEN [before EXCEPT !.quote = IF ch = before.quote THEN "" ELSE @]
             ELSE IF ch \in Quotes THEN [before EXCEPT !.quote = ch]
             ELSE before

\* A "/]" at j that lies outside every quoted span and not after a backslash.
UnquotedClose(text, start, j) ==
    /\ j + 1 < Len(text)
    /\ At(text, j) = "/"
    /\ At(text, j + 1) = "]"
    /\ Quoting(text, start, j) = [quote |-> "", escaped |-> FALSE]

\* The token at the cursor begins "[namespace:action"; its arguments begin at
\* ArgStart.
NamespacedHead ==
    /\ pstatus = "scan"
    /\ pcursor < Len(ptext)
    /\ At(ptext, pcursor) = "["
    /\ LET namespace == _read_identifier(ptext, pcursor + 1)
       IN  /\ namespace.name # None
           /\ namespace.end < Len(ptext)
           /\ At(ptext, namespace.end) = ":"
           /\ _read_identifier(ptext, namespace.end + 1).name # None

ArgStart ==
    LET namespace == _read_identifier(ptext, pcursor + 1)
    IN  SkipSpaces(ptext, _read_identifier(ptext, namespace.end + 1).end)

UnquotedCloses == {j \in ArgStart..(Len(ptext) - 2) : UnquotedClose(ptext, ArgStart, j)}

\* C16: the "/]" that ends a namespaced tag is the first one outside every
\* quoted span and not after a backslash; where there is none, the parse raises
\* ParseError.
C16_CloseOutsideQuotes ==
    [][(NamespacedHead /\ pstatus' # "done") =>
          /\ UnquotedCloses = {} => pstatus' = "error"
          /\ pstatus' = "scan" =>
                /\ pcursor' - 2 \in UnquotedCloses
                /\ \A j \in UnquotedCloses : pcursor' - 2 <= j
      ]_vars

\* [n:r "/]"/] was parsed: the quoted "/]" is the tag's parameter.
C16_Witness ==
    /\ ptext = <<"[", "n", ":", "r", " ", "\"", "/", "]", "\"", "/", "]">>
    /\ pstatus = "ok"
    /\ Len(tags) = 1
    /\ tags[1].params = << <<"/", "]">> >>

\* C17: with include_nested false, the tags parse_all has collected start at
\* strictly increasing offsets of the text, and each tag's raw is exactly the
\* text from its start offset on.
C17_SourceOrderAndRaw ==
    (pstatus \in {"scan", "ok"} /\ ~pnested) =>
        /\ Len(tag_starts) = Len(tags)
        /\ \A i \in 1..Len(tags) :
              /\ tags[i].raw = Slice(ptext, tag_starts[i], tag_starts[i] + Len(tags[i].raw))
              /\ tag_starts[i] + Len(tags[i].raw) <= Len(ptext)
              /\ i > 1 => tag_starts[i - 1] < tag_starts[i]

\* [a][b /][/a]x[b /] was parsed to the container and the later [b /].
C17_Witness ==
    /\ ptext = OpenMarker("a") \o SingleB \o CloseMarker("a") \o <<"x">> \o SingleB
    /\ ~pnested
    /\ pstatus = "ok"
    /\ Len(tags) = 2
    /\ tag_starts = <<0, 13>>

\* The tokens shlex gives for the arguments of the namespaced token at the
\* cursor.
ArgTokens ==
    shlex_split(strip(Slice(ptext, ArgStart,
                            _find_cheatcode_close(ptext, ArgStart, "", FALSE))))

\* str.split("=", 1)[0] of a token with "="
KeyOf(tok) == Slice(tok, 0, FindEq(tok, 0))

\* A letter or "_", then letters, digits, "_" and "-".
IsIdentifier(key) ==
    /\ key # <<>>
    /\ isalpha(key[1]) \/ key[1] = "_"
    /\ \A i \in 2..Len(key) : isalnum(key[i]) \/ key[i] \in {"_", "-"}

\* The tokens with "=" whose key is empty or no identifier.
BadKeyTokens(tokens) ==
    {i \in 1..Len(tokens) : "=" \in Elements(tokens[i]) /\ ~IsIdentifier(KeyOf(tokens[i]))}

\* C39: a token of the arguments of a namespaced tag that has "=" and a key
\* that is empty or no identifier makes the parse raise ParseError; no tag is
\* read with such a token as a positional parameter or as an attribute.
C39_BadKeyRaises ==
    [][(NamespacedHead /\ pstatus' # "done") =>
          /\ (/\ UnquotedCloses # {}
              /\ ArgTokens.ok
              /\ BadKeyTokens(ArgTokens.tokens) # {}) => pstatus' = "error" /\ tags' = <<>>
          /\ Len(tags') > Len(tags) =>
                /\ BadKeyTokens(tags'[Len(tags')].params) = {}
                /\ \A key \in DOMAIN tags'[Len(tags')].attributes : IsIdentifier(key)
      ]_vars

\* [n:r x =v /] was refused at its token "=v".
C39_Witness ==
    /\ ptext = CheatArgs(<<"x", " ", "=", "v">>)
    /\ pstatus = "error"
    /\ pcursor = 0
    /\ tags = <<>>

\* The loop variables of _find_cheatcode_close after each of its first
\* iterations, at most `iterations` of them, from `search` on.
RECURSIVE Iterations(_, _, _)
Iterations(text, search, iterations) ==
    IF iterations = 0 \/ search.found \/ ~(search.i < Len(text) - 1) THEN <<search>>
    ELSE <<search>> \o Iterations(text, CloseSearchStep(text, search), iterations - 1)

\* The close search of the namespaced token at the cursor.
SearchAtCursor == Iterations(ptext, CloseSearch(ArgStart, "", FALSE), Len(ptext))

\* C40: parse_all ends on every text, with its tags or with ParseError: each
\* iteration of its loop that does not end it moves the cursor forward, never
\* past the end of the text, and so does each iteration of the search for the
\* closing "/]" that does not return.
C40_CursorAdvances ==
    /\ [](pstatus = "scan" =>
            LET after == ParseStep(ptext, pnested, Scan)
            IN  after.status = "scan" =>
                    pcursor < after.cursor /\ after.cursor <= Len(ptext))
    /\ [][pstatus = "scan" =>
            /\ pstatus' = "scan" => pcursor < pcursor' /\ pcursor' <= Len(ptext)
            /\ NamespacedHead =>
                  /\ \A k \in 1..(Len(SearchAtCursor) - 1) :
                        \/ SearchAtCursor[k + 1].found
                        \/ SearchAtCursor[k].i < SearchAtCursor[k + 1].i
                  /\ LET last_search == SearchAtCursor[Len(SearchAtCursor)]
                     IN  \/ last_search.found
                         \/ ~(last_search.i < Len(ptext) - 1)
         ]_vars
    /\ (pstatus = "scan" ~> pstatus \in {"ok", "error"})

\* [n:r 'v'/] was scanned to its end: the search went through a quoted span.
C40_Witness ==
    /\ ptext = <<"[", "n", ":", "r", " ", "'", "v", "'", "/", "]">>
    /\ pstatus = "ok"
    /\ pcursor = Len(ptext)
    /\ Len(tags) = 1

----------------------------------------------------------------------------
(* Claims about namespace handlers (SpecNs) *)

ContextOps == {"ctx_execute", "ctx_execute_async"}

\* The tag of the last Context call, where its tag string parsed.
CallParsed == parse_tag(nscall.tag_string)

\* The last call dispatched a "[namespace:action /]" tag.
NamespacedCall ==
    /\ nscall.op \in ContextOps
    /\ CallParsed.ok
    /\ CallParsed.tag.tag_type = "cheatcode"

\* ... with no local "namespace:action" handler for it, and a registered namespace.
NamespaceResolvedCall ==
    /\ NamespacedCall
    /\ HandlerKey(CallParsed.tag.namespace, CallParsed.tag.action) \notin DOMAIN ctx_handlers
    /\ CallParsed.tag.namespace \in DOMAIN ctx_namespace_handlers \cup DOMAIN registry_handlers

\* The metadata the resolved namespace handler was registered with.
ResolvedRegistration(namespace) ==
    IF namespace \in DOMAIN ctx_namespace_handlers THEN ctx_namespace_metadata[namespace]
    ELSE registry_metadata[namespace]

\* The metadata of every registration of the namespace, local and shared.
Registrations(namespace) ==
    {ctx_namespace_metadata[ns] : ns \in DOMAIN ctx_namespace_handlers \cap {namespace}}
      \cup {registry_metadata[ns] : ns \in DOMAIN registry_handlers \cap {namespace}}

HasAllowList(metadata) ==
    /\ "allowed_actions" \in DOMAIN metadata
    /\ metadata.allowed_actions # PyNone
    /\ metadata.allowed_actions.items # <<>>

Excludes(metadata, action) ==
    HasAllowList(metadata) /\ action \notin Elements(metadata.allowed_actions.items)

AbsentOrEmpty(metadata) ==
    \/ "allowed_actions" \notin DOMAIN metadata
    \/ metadata.allowed_actions = PyList(<<>>)

Refused == nscall.raised # "none" /\ nscall.invoked = <<>>

Reached(action) ==
    /\ nscall.raised = "none"
    /\ Len(nscall.invoked) = 1
    /\ nscall.invoked[1].action = action

\* C3: an action outside the non-empty allowed_actions list its namespace was
\* registered with is refused and the namespace handler is not invoked, through
\* NamespaceRegistry.execute and through Context dispatch of a tag to a
\* namespace-resolved handler.
C3_AsStated ==
    /\ (/\ nscall.op = "registry_execute"
        /\ nscall.namespace \in DOMAIN registry_handlers
        /\ Excludes(registry_metadata[nscall.namespace], nscall.action)) => Refused
    /\ (/\ NamespaceResolvedCall
        /\ Excludes(ResolvedRegistration(CallParsed.tag.namespace), CallParsed.tag.action))
           => Refused

\* C4: where the metadata of a registered namespace has allowed_actions absent
\* or an empty list, every action with a valid identifier reaches the handler,
\* through NamespaceRegistry.execute and through Context dispatch of a tag.
C4_AsStated ==
    /\ (/\ nscall.op = "registry_execute"
        /\ nscall.namespace \in DOMAIN registry_handlers
        /\ Bridge_validate_identifier(nscall.action)
        /\ AbsentOrEmpty(registry_metadata[nscall.namespace])) => Reached(nscall.action)
    /\ (/\ NamespaceResolvedCall
        /\ \A metadata \in Registrations(CallParsed.tag.namespace) : AbsentOrEmpty(metadata)
        /\ DOMAIN CallParsed.tag.attributes \cap DOMAIN nscall.kwargs = {})
           => Reached(CallParsed.tag.action)

\* C5: a namespaced tag executed through Context.execute or execute_async with
\* a key that is both an attribute of the tag and a keyword argument of the
\* caller raises, and no handler is invoked.
C5_SmugglingRefused ==
    (NamespacedCall /\ DOMAIN CallParsed.tag.attributes \cap DOMAIN nscall.kwargs # {})
        => Refused

\* "[n:r k=v /]" was executed with k="b" where the local function for n:r
\* would have taken the call.
C5_Witness ==
    /\ nscall.op = "ctx_execute"
    /\ nscall.tag_string = CheatTag(<<"n">>, <<"r">>, <<" ", "k", "=", "v">>)
    /\ <<"k">> \in DOMAIN nscall.kwargs
    /\ HandlerKey(<<"n">>, <<"r">>) \in DOMAIN ctx_handlers
    /\ nscall.raised = "ValueError"

\* The handler the claimed order gives a namespaced tag: the local function
\* registered for "namespace:action", else the namespace handler of the
\* Context, else that of the shared registry, else "None".
FirstInOrder(tag) ==
    LET key == HandlerKey(tag.namespace, tag.action)
    IN  IF key \in DOMAIN ctx_handlers THEN ctx_handlers[key]
        ELSE IF tag.namespace \in DOMAIN ctx_namespace_handlers
             THEN ctx_namespace_handlers[tag.namespace]
        ELSE IF tag.namespace \in DOMAIN registry_handlers
             THEN registry_handlers[tag.namespace]
        ELSE "None"

\* C21: the handler a namespaced tag is dispatched to is the first of: the
\* Context's handler for the exact pattern, the Context's handler of the
\* namespace, the shared registry's handler of the namespace; with none of
\* them the dispatch raises and no handler is invoked.
C21_ResolutionOrder ==
    NamespacedCall =>
        /\ nscall.raised = "none" => Len(nscall.invoked) = 1
        /\ nscall.invoked # <<>> => nscall.invoked[1].handler = FirstInOrder(CallParsed.tag)
        /\ FirstInOrder(CallParsed.tag) = "None" =>
              nscall.raised = "ValueError" /\ nscall.invoked = <<>>

\* A tag went to the Context's namespace handler although the shared registry
\* has a handler for the namespace too.
C21_Witness ==
    /\ NamespacedCall
    /\ CallParsed.tag.namespace \in DOMAIN registry_handlers
    /\ nscall.invoked # <<>>
    /\ nscall.invoked[1].handler = "local_handler"

\* C24: in the shared registry and in the Context, registering a registered
\* namespace raises and leaves handler and metadata as they were, registering
\* an unregistered one registers it; unregistering an unregistered namespace
\* raises and changes nothing, unregistering a registered one leaves it
\* unregistered.
C24_UniqueNamespaces ==
    [][/\ nscall'.op = "register_namespace" =>
            IF nscall'.namespace \in DOMAIN registry_handlers
            THEN /\ nscall'.raised = "ValueError"
                 /\ UNCHANGED <<registry_handlers, registry_metadata>>
            ELSE Bridge_validate_identifier(nscall'.namespace) =>
                    /\ nscall'.raised = "none"
                    /\ nscall'.namespace \in DOMAIN registry_handlers'
       /\ nscall'.op = "unregister_namespace" =>
            IF nscall'.namespace \notin DOMAIN registry_handlers
            THEN /\ nscall'.raised # "none"
                 /\ UNCHANGED <<registry_handlers, registry_metadata>>
            ELSE /\ nscall'.raised = "none"
                 /\ nscall'.namespace \notin DOMAIN registry_handlers'
                 /\ nscall'.namespace \notin DOMAIN registry_metadata'
       /\ nscall'.op = "ctx_register_namespace" =>
            IF nscall'.namespace \in DOMAIN ctx_namespace_handlers
            THEN /\ nscall'.raised = "ValueError"
                 /\ UNCHANGED <<ctx_namespace_handlers, ctx_namespace_metadata>>
            ELSE Core_validate_identifier(nscall'.namespace) =>
                    /\ nscall'.raised = "none"
                    /\ nscall'.namespace \in DOMAIN ctx_namespace_handlers'
       /\ nscall'.op = "ctx_unregister_namespace" =>
            IF nscall'.namespace \notin DOMAIN ctx_namespace_handlers
            THEN /\ nscall'.raised = "KeyError"
                 /\ UNCHANGED <<ctx_namespace_handlers, ctx_namespace_metadata>>
            ELSE /\ nscall'.raised = "none"
                 /\ nscall'.namespace \notin DOMAIN ctx_namespace_handlers'
                 /\ nscall'.namespace \notin DOMAIN ctx_namespace_metadata'
      ]_vars

\* A second registration of a registered namespace, with other metadata, was
\* refused.
C24_Witness ==
    /\ nscall.op = "register_namespace"
    /\ nscall.raised = "ValueError"
    /\ nscall.namespace \in DOMAIN registry_handlers
    /\ registry_metadata[nscall.namespace] = [allowed_actions |-> PyList(<< <<"r">> >>)]

\* The metadata mark the action as forbidden: its per-action metadata have
\* forbid = true.
Forbids(metadata, action) ==
    /\ "actions" \in DOMAIN metadata
    /\ action \in DOMAIN metadata.actions.d
    /\ "forbid" \in DOMAIN metadata.actions.d[action].d
    /\ metadata.actions.d[action].d.forbid = PyBool(TRUE)

\* C27: an action that the metadata of its namespace handler mark as forbidden
\* is refused and the handler is not invoked, through NamespaceRegistry.execute
\* and through Context dispatch of a tag to a namespace-resolved handler.
C27_AsStated ==
    /\ (/\ nscall.op = "registry_execute"
        /\ nscall.namespace \in DOMAIN registry_handlers
        /\ Forbids(registry_metadata[nscall.namespace], nscall.action)) => Refused
    /\ (/\ NamespaceResolvedCall
        /\ Forbids(ResolvedRegistration(CallParsed.tag.namespace), CallParsed.tag.action))
           => Refused

\* What the claim gives for metadata: the bool of the action's own metadata,
\* else the bool at namespace level, else false.
StatedNoResponse(metadata, action) ==
    LET own == IF "actions" \in DOMAIN metadata /\ action \in DOMAIN metadata.actions.d
               THEN metadata.actions.d[action].d
               ELSE IF "action_metadata" \in DOMAIN metadata
                       /\ action \in DOMAIN metadata.action_metadata.d
               THEN metadata.action_metadata.d[action].d
               ELSE <<>>
    IN  IF NoResponseOf(own).t = "bool" THEN NoResponseOf(own).v
        ELSE IF NoResponseOf(metadata).t = "bool" THEN NoResponseOf(metadata).v
        ELSE FALSE

\* The metadata a namespace is registered with, for the Context: its own
\* registration, else that of the shared registry, else none.
RegisteredMetadata(namespace) ==
    IF namespace \in DOMAIN ctx_namespace_handlers THEN ctx_namespace_metadata[namespace]
    ELSE get_metadata(registry_metadata, namespace)

\* C25: should_suppress_cheatcode_response and Context.get_no_response return
\* the same value for a namespace and an action: the bool of the action's
\* metadata, else the bool at namespace level, else false.
C25_AsStated ==
    LET bridge_says == should_suppress_cheatcode_response(
                           get_metadata(registry_metadata, nscall.namespace), nscall.action)
        context_says == get_no_response(
                            _resolve_namespace_metadata(ctx_namespace_metadata,
                                                        registry_metadata, nscall.namespace),
                            nscall.action)
    IN  /\ nscall.op = "should_suppress_cheatcode_response" =>
              /\ nscall.ret = PyBool(context_says)
              /\ nscall.ret = PyBool(StatedNoResponse(
                                  get_metadata(registry_metadata, nscall.namespace),
                                  nscall.action))
        /\ nscall.op = "get_no_response" =>
              /\ nscall.ret = PyBool(bridge_says)
              /\ nscall.ret = PyBool(StatedNoResponse(RegisteredMetadata(nscall.namespace),
                                                      nscall.action))

\* The metadata are a non-empty list of allowed actions and nothing else.
OnlyAllowList(metadata) == DOMAIN metadata = {"allowed_actions"} /\ HasAllowList(metadata)

\* The last call dispatched a tag to the namespace handler of the Context,
\* whose namespace the shared registry has with other metadata.
LocalWithOtherShared ==
    /\ NamespaceResolvedCall
    /\ CallParsed.tag.namespace \in DOMAIN ctx_namespace_handlers
    /\ CallParsed.tag.namespace \in DOMAIN registry_handlers
    /\ OnlyAllowList(ctx_namespace_metadata[CallParsed.tag.namespace])
    /\ OnlyAllowList(registry_metadata[CallParsed.tag.namespace])
    /\ ctx_namespace_metadata[CallParsed.tag.namespace]
         # registry_metadata[CallParsed.tag.namespace]
    /\ DOMAIN CallParsed.tag.attributes \cap DOMAIN nscall.kwargs = {}

\* C34: a tag dispatched to the namespace handler a Context registered with its
\* own metadata is validated against those metadata only: a registration of the
\* same name in the shared registry with other allowed_actions neither blocks
\* an action the local allow-list permits nor permits one that it excludes.
C34_AsStated ==
    LocalWithOtherShared =>
        IF Excludes(ctx_namespace_metadata[CallParsed.tag.namespace], CallParsed.tag.action)
        THEN Refused
        ELSE Reached(CallParsed.tag.action)

\* C35: Context.execute_cheatcode enforces the allow-list of the namespace it
\* resolves, the Context's or the shared registry's: with a non-empty
\* allowed_actions that does not contain the action it raises and does not
\* invoke handler.execute.
C35_AsStated ==
    (/\ nscall.op = "ctx_execute_cheatcode"
     /\ nscall.namespace \in DOMAIN ctx_namespace_handlers \cup DOMAIN registry_handlers
     /\ Excludes(ResolvedRegistration(nscall.namespace), nscall.action)) => Refused

\* C36: where NamespaceRegistry.execute runs while another thread unregisters
\* the namespace and registers it with another handler and other metadata,
\* the second handler is not called with an action that the allowed_actions
\* of the second registration exclude.
C36_AsStated ==
    (/\ nscall.op = "registry_execute"
     /\ nscall.invoked # <<>>
     /\ nscall.invoked[1].handler = "handler2")
        => ~Excludes(threads.registrar.metadata, nscall.action)

----------------------------------------------------------------------------
(* Claims about execute_text and execute_tag (SpecExec)                     *)

\* What execute_tag does for a tag on the Context as it is: the call it makes
\* of a handler, where it looks one up without raising.
Looked(tag) == Dispatch(TheContext, TheRegistry, ctx_container_handlers, tag, EmptyDict)

ReachesHandler(tag) == _validate_tag_values(tag) /\ Looked(tag).raised = "none"

TagRaises(tag) == ~ReachesHandler(tag) \/ FunctionRaises(Looked(tag).invoked[1].handler)

Returned(tag) ==
    LET call == Looked(tag).invoked[1]
        result == FunctionResult(call.handler, call.args)
    IN  IF ctx_apply_filters THEN Filters_apply_filters(ctx_filters, result).ret ELSE result

HandlerCalled(slot, tag) ==
    \E i \in 1..Len(events) :
        events[i].kind = "handler" /\ events[i].slot = slot /\ events[i].tag = tag

\* C18: execute_text on text that parses returns one slot for each top-level
\* tag, in source order: the error record {error, tag: tag.raw} where executing
\* the tag raised and what the tag returned otherwise, and the handler of every
\* tag that has one was called, also after a tag that raised.
C18_OneSlotPerTag ==
    /\ ex_phase = "raised" => TopLevel(ptext).status = "error"
    /\ ex_phase = "returned" =>
          LET top == TopLevel(ptext).tags
          IN  /\ TopLevel(ptext).status = "ok"
              /\ Len(results) = Len(top)
              /\ \A i \in 1..Len(top) :
                    /\ IF TagRaises(top[i])
                       THEN /\ results[i].kind = "error"
                            /\ results[i].tag = top[i].raw
                            /\ DOMAIN results[i] = {"kind", "error", "tag"}
                       ELSE results[i] = ValueSlot(Returned(top[i]))
                    /\ ReachesHandler(top[i]) => HandlerCalled(i, top[i])

\* [a /][__a /][a /] with a handler for "a": the second slot is the error
\* record and the third tag was executed.
C18_Witness ==
    /\ ex_phase = "returned"
    /\ Len(results) = 3
    /\ results[1].kind = "value"
    /\ results[2].kind = "error"
    /\ results[3].kind = "value"
    /\ HandlerCalled(3, ex_tags[3])

\* C38: execute_text of a text that parse_all refuses raises the ParseError:
\* no handler and no callback of a hook or filter is called and no result is
\* recorded, also where well-formed tags come before the malformed part.
C38_FailsClosed ==
    (ex_mode = "text" /\ TopLevel(ptext).status = "error") =>
        /\ ex_phase = "raised"
        /\ events = <<>>
        /\ results = <<>>
        /\ ex_tags = <<>>

\* [a /][a] was refused on a Context with a handler for "a" and a
\* before_execute callback.
C38_Witness ==
    /\ ex_mode = "text"
    /\ ptext = SingleA \o OpenMarker("a")
    /\ ex_phase = "raised"
    /\ <<"a">> \in DOMAIN ctx_handlers
    /\ ctx_hooks.before_execute # <<>>
    /\ events = <<>>

StageRank(kind) ==
    CASE kind = "before_execute" -> 1
      [] kind = "handler" -> 2
      [] kind = "result" -> 3
      [] kind = "after_execute" -> 4

\* C19: the callbacks and handlers execute_text calls are called for the tags
\* in source order, everything for one tag before anything for the next, and
\* for one tag in the order before-hook, handler, filters, after-hook.
C19_SequentialInSourceOrder ==
    /\ \A i \in 1..Len(events) :
          /\ events[i].slot \in 1..Len(ex_tags)
          /\ events[i].slot <= ex_index
          /\ events[i].tag = ex_tags[events[i].slot]
    /\ \A i, j \in 1..Len(events) :
          i < j =>
             /\ events[i].slot <= events[j].slot
             /\ events[i].slot = events[j].slot =>
                   StageRank(events[i].kind) <= StageRank(events[j].kind)
    /\ ex_phase \in {"before", "handler", "filter", "after"} => Len(results) = ex_index - 1

\* Two tags ran through all four stages, the second after the first.
C19_Witness ==
    /\ ex_phase = "returned"
    /\ Len(ex_tags) = 2
    /\ ex_tags[1] # ex_tags[2]
    /\ \A slot \in 1..2 :
          \A kind \in {"before_execute", "handler", "result", "after_execute"} :
              \E i \in 1..Len(events) : events[i].slot = slot /\ events[i].kind = kind

EventsOf(slot) == SelectSeq(events, LAMBDA e : e.slot = slot)

FiltersRun == IF ctx_apply_filters THEN ctx_filters ELSE <<>>

\* C20: for a tag whose execute_tag returned, the calls made are those of all
\* before_execute callbacks, then one call of the handler, then those of all
\* result filters when filters are enabled, then those of all after_execute
\* callbacks, each given the (frozen) filtered result, which is what
\* execute_tag returned.
C20_Lifecycle ==
    \A slot \in 1..Len(results) :
        results[slot].kind = "value" =>
            LET mine == EventsOf(slot)
                before == ctx_hooks.before_execute
                after == ctx_hooks.after_execute
                b == Len(before)
                f == Len(FiltersRun)
            IN  /\ Len(mine) = b + 1 + f + Len(after)
                /\ \A k \in 1..b :
                      mine[k].kind = "before_execute" /\ mine[k].callback = before[k].callback
                /\ mine[b + 1].kind = "handler"
                /\ \A k \in 1..f :
                      /\ mine[b + 1 + k].kind = "result"
                      /\ mine[b + 1 + k].callback = FiltersRun[k].callback
                /\ \A k \in 1..Len(after) :
                      /\ mine[b + 1 + f + k].kind = "after_execute"
                      /\ mine[b + 1 + f + k].callback = after[k].callback
                      /\ mine[b + 1 + f + k].value = _freeze(results[slot].value)
                /\ results[slot].value = Returned(ex_tags[slot])

\* A tag returned on a Context with filters enabled that has a before_execute
\* callback, a result filter that changes the result and an after_execute
\* callback.
C20_Witness ==
    /\ ex_phase = "returned"
    /\ ctx_apply_filters
    /\ Len(ctx_hooks.before_execute) = 1
    /\ Len(ctx_hooks.after_execute) = 1
    /\ Len(ctx_filters) = 1
    /\ ~CallbackRaises(ctx_filters[1].callback)
    /\ results # <<>>
    /\ results[1].kind = "value"
    /\ Len(EventsOf(1)) = 4

----------------------------------------------------------------------------
(* Claims about Context.execute and Context.execute_async (SpecTag)        *)

\* The callbacks of a bucket, in the order do_action calls them.
CallbacksOf(bucket) == [i \in 1..Len(bucket) |-> bucket[i].callback]

\* The callbacks called at a hook point among the events, in call order.
CalledAt(called, kind) ==
    LET at == SelectSeq(called, LAMBDA e : e.kind = kind)
    IN  [i \in 1..Len(at) |-> at[i].callback]

\* Context.execute is past the handler stage of a namespaced tag that has no
\* "namespace:action" handler and whose namespace has a handler.
NamespaceResolved ==
    /\ ex_mode = "execute"
    /\ ex_tags # <<>>
    /\ ex_phase \in {"filter", "after", "returned", "raised"}
    /\ ex_tags[1].tag_type = "cheatcode"
    /\ _validate_tag_values(ex_tags[1])
    /\ HandlerKey(ex_tags[1].namespace, ex_tags[1].action) \notin DOMAIN ctx_handlers
    /\ _resolve_namespace_handler(ctx_namespace_handlers, registry_handlers,
                                  ex_tags[1].namespace) # "None"

\* C22: when Context.execute dispatches a namespaced tag to a namespace-resolved
\* handler, every pre-execute callback is called before the handler and every
\* post-execute callback after it, given the handler's (frozen) result; the
\* handler is called and the call returns what the handler returned (filtered
\* where filters are enabled) whether or not those callbacks raise.
C22_PrePostAroundHandler ==
    NamespaceResolved =>
        LET handler == _resolve_namespace_handler(ctx_namespace_handlers, registry_handlers,
                                                  ex_tags[1].namespace)
            result == FunctionResult(handler, <<>>)
        IN  /\ ex_phase # "raised"
            /\ \E h \in 1..Len(events) :
                  LET before == SubSeq(events, 1, h - 1)
                      after == SubSeq(events, h + 1, Len(events))
                  IN  /\ events[h].kind = "handler"
                      /\ events[h].callback = handler
                      /\ CalledAt(before, "pre_cheatcode_execute")
                            = CallbacksOf(bridge_hooks.pre_cheatcode_execute)
                      /\ CalledAt(after, "pre_cheatcode_execute") = <<>>
                      /\ CalledAt(before, "post_cheatcode_execute") = <<>>
                      /\ CalledAt(after, "post_cheatcode_execute")
                            = CallbacksOf(bridge_hooks.post_cheatcode_execute)
                      /\ CalledAt(before, "handler") = <<>>
                      /\ CalledAt(after, "handler") = <<>>
                      /\ \A i \in 1..Len(after) :
                            after[i].kind = "post_cheatcode_execute"
                                => after[i].value = _freeze(result)
            /\ ex_phase = "returned" => results = <<ValueSlot(Returned(ex_tags[1]))>>
            /\ Returned(ex_tags[1])
                  = IF ctx_apply_filters THEN Filters_apply_filters(ctx_filters, result).ret
                    ELSE result

\* [n:r 1 /] returned from the shared namespace handler with a raising
\* pre-execute callback and a raising and a returning post-execute callback
\* registered.
C22_Witness ==
    /\ NamespaceResolved
    /\ ex_phase = "returned"
    /\ \E i \in 1..Len(bridge_hooks.pre_cheatcode_execute) :
          CallbackRaises(bridge_hooks.pre_cheatcode_execute[i].callback)
    /\ Len(bridge_hooks.post_cheatcode_execute) = 2
    /\ CallbackRaises(bridge_hooks.post_cheatcode_execute[1].callback)
    /\ ~CallbackRaises(bridge_hooks.post_cheatcode_execute[2].callback)

\* C23 as stated: in Context.execute and in Context.execute_async the result
\* filters and the after_execute callbacks are given the resolved value, never
\* an awaitable.
C23_AsStated ==
    /\ (ex_phase = "filter" /\ ctx_filters # <<>>) => ~isawaitable(ex_result)
    /\ \A i \in 1..Len(events) :
          events[i].kind = "after_execute" => ~isawaitable(events[i].value)

\* The handler stage of Context.execute has raised for the tag: no handler is
\* registered for its kind and name, or the handler raised.
HandlerStageRaised ==
    /\ ex_mode = "execute"
    /\ ex_tags # <<>>
    /\ ex_phase \in {"filter", "after", "returned", "raised"}
    /\ _validate_tag_values(ex_tags[1])
    /\ TagRaises(ex_tags[1])

\* C28: in Context.execute the exception of the tag's handler and the error
\* of a tag with no handler reach the caller, and for that tag no result
\* filter, no after_execute callback and no post-execute callback is called.
C28_HandlerErrorsPropagate ==
    HandlerStageRaised =>
        /\ ex_phase = "raised"
        /\ results = <<RaisedSlot(IF Looked(ex_tags[1]).raised # "none"
                                  THEN Looked(ex_tags[1]).raised ELSE "Exception")>>
        /\ \A i \in 1..Len(events) :
              events[i].kind \notin {"result", "after_execute", "post_cheatcode_execute"}

\* [n:r 1 /] whose handler raised, on a Context with filters enabled and a
\* result filter, an after_execute callback and a post-execute callback.
C28_Witness ==
    /\ HandlerStageRaised
    /\ Looked(ex_tags[1]).raised = "none"
    /\ ctx_apply_filters
    /\ ctx_filters # <<>>
    /\ ctx_hooks.after_execute # <<>>
    /\ bridge_hooks.post_cheatcode_execute # <<>>

\* A call of Context.execute or Context.execute_async has returned or raised
\* for a tag that parse_tag read.
CallOver ==
    /\ ex_mode \in {"execute", "async"}
    /\ ex_tags # <<>>
    /\ ex_phase \in {"returned", "raised"}

\* The call reached a handler, and a synchronous one.
SynchronousHandlerCalled ==
    \E h \in 1..Len(events) :
        events[h].kind = "handler" /\ events[h].callback # "async_function"

\* C37 as stated: with a synchronous handler Context.execute_async does what
\* Context.execute does: a tag with an identifier that starts or ends with a
\* double underscore is refused before any callback or handler is called, and
\* around the handler of a namespaced tag the pre-execute callbacks and, where
\* the handler returned, the post-execute callbacks are called.
C37_AsStated ==
    CallOver =>
        /\ ~_validate_tag_values(ex_tags[1]) =>
              /\ ex_phase = "raised"
              /\ results = <<RaisedSlot("ValueError")>>
              /\ events = <<>>
        /\ (ex_tags[1].tag_type = "cheatcode" /\ SynchronousHandlerCalled) =>
              /\ CalledAt(events, "pre_cheatcode_execute")
                    = CallbacksOf(bridge_hooks.pre_cheatcode_execute)
              /\ ex_phase = "returned" =>
                    CalledAt(events, "post_cheatcode_execute")
                        = CallbacksOf(bridge_hooks.post_cheatcode_execute)

\* C31: the handler Context.execute calls for a tag, and the action, params,
\* attributes and content it calls it with, are those of the tag as parse_tag
\* read it, whatever the callbacks do to the Tag they are given.
C31_AsStated ==
    (ex_mode = "execute" /\ ex_tags # <<>>) =>
        LET parsed == parse_tag(ptext).tag
        IN  \A i \in 1..Len(events) :
                events[i].kind = "handler" =>
                    /\ Looked(parsed).raised = "none"
                    /\ events[i].callback = Looked(parsed).invoked[1].handler
                    /\ events[i].tag = parsed

============================================================================
